---- MODULE Spec2Model ----
(***************************************************************************)
(* Model of the loadforge-agent scenario package: the variable             *)
(* substitution engine (substitute, ApplyToURL, ApplyToHeaders,            *)
(* ApplyToQuery, ApplyToBody, ApplyToStep) and the scenario parser and     *)
(* validator (ParseData, GetScenario, FindStep, Validate, parseRequest,    *)
(* validateStatusCode, validateMapping).                                   *)
(*                                                                         *)
(* A Go string is a sequence of one-character strings.  A Go error is the  *)
(* chain of its wrapped messages, outermost first: a sequence of records   *)
(* [msg, arg], arg being the value formatted into the message; the nil     *)
(* error is the empty chain.                                               *)
(***************************************************************************)
EXTENDS Integers, Sequences, FiniteSets, TLC

VARIABLES
    op,        \* the operation the last call ran ("none" before any call)
    template,  \* substitute / ApplyToURL: the string argument
    vars,      \* substitute / ApplyToURL: the variable context, by value
    ret,       \* what the last call returned: [val, err]
    heap,      \* the maps and structured bodies allocated so far
    step,      \* ApplyToStep and the field operations: the Step argument
    scenario,  \* the Parser's p.scenario: <<>> when nil, else <<Scenario>>
    callers,   \* the goroutines that share the Parser, each with its calls
    args,      \* the arguments of a call of a helper or of the Extractor
    doc        \* the OpenAPI Parser's p.doc: <<>> when nil, else <<T>>

allVars ==
    <<op, template, vars, ret, heap, step, scenario, callers, args, doc>>

----------------------------------------------------------------------------
(* Bounds and input pools                                                  *)

MaxParts == 3

\* Pieces a template is put together from: single characters, so that every
\* short string over the placeholder alphabet occurs, and whole placeholders.
SegPool ==
    { <<"a">>, <<"$">>, <<"{">>, <<"}">>,
      <<"$", "{", "a", "}">>, <<"$", "{", "b", "}">>, <<"$", "{", "c", "}">> }

KeyPool == { <<>>, <<"a">>, <<"b">> }

ValPool == { <<>>, <<"x">>, <<"$", "{", "b", "}">> }

RECURSIVE Flatten(_)
Flatten(parts) ==
    IF parts = <<>> THEN <<>> ELSE Head(parts) \o Flatten(Tail(parts))

SeqsUpTo(S, n) == UNION { [1..k -> S] : k \in 0..n }

Templates == { Flatten(parts) : parts \in SeqsUpTo(SegPool, MaxParts) }

Contexts == UNION { [D -> ValPool] : D \in SUBSET KeyPool }

Min(S) == CHOOSE x \in S : \A y \in S : x <= y

----------------------------------------------------------------------------
(* Errors                                                                  *)

NilErr == <<>>

Errorf(msg, arg) == <<[msg |-> msg, arg |-> arg]>>

Wrap(msg, arg, err) == Errorf(msg, arg) \o err

\* The innermost error of a chain.
Cause(err) == err[Len(err)]

NoArg == <<>>

----------------------------------------------------------------------------
(* substitute                                                              *)

\* varPattern matched at position i of s: the index of the closing brace of
\* the match, 0 when the pattern does not match at i.
MatchAt(s, i) ==
    IF i + 3 <= Len(s) /\ s[i] = "$" /\ s[i + 1] = "{" /\ s[i + 2] # "}"
    THEN LET closers == { j \in (i + 3)..Len(s) : s[j] = "}" }
         IN  IF closers = {} THEN 0 ELSE Min(closers)
    ELSE 0

\* The closure with the name sliced one character too far (match[2:]).
ReplFuncNameKeepsBrace(match, vs, firstErr) ==
    IF firstErr # NilErr
    THEN [out |-> match, firstErr |-> firstErr]
    ELSE LET name == SubSeq(match, 3, Len(match))
         IN  IF name \notin DOMAIN vs
             THEN [out |-> match,
                   firstErr |-> Errorf("undefined variable", name)]
             ELSE [out |-> vs[name], firstErr |-> NilErr]

\* The closure without its firstErr guard: a later failure overwrites it.
ReplFuncKeepsLastErr(match, vs, firstErr) ==
    LET name == SubSeq(match, 3, Len(match) - 1)
    IN  IF name \notin DOMAIN vs
        THEN [out |-> match, firstErr |-> Errorf("undefined variable", name)]
        ELSE [out |-> vs[name], firstErr |-> firstErr]

\* The closure handed to ReplaceAllStringFunc, with the firstErr it captures.
ReplFunc(match, vs, firstErr) ==
    IF firstErr # NilErr
    THEN [out |-> match, firstErr |-> firstErr]
    ELSE LET name == SubSeq(match, 3, Len(match) - 1)
         IN  IF name \notin DOMAIN vs
             THEN [out |-> match,
                   firstErr |-> Errorf("undefined variable", name)]
             ELSE [out |-> vs[name], firstErr |-> NilErr]

\* ReplaceAllStringFunc: the leftmost non-overlapping matches, left to
\* right, each replaced by what the closure returns for it.
RECURSIVE ReplaceAllStringFunc(_, _, _, _, _)
ReplaceAllStringFunc(s, vs, i, acc, firstErr) ==
    IF i > Len(s)
    THEN [result |-> acc, firstErr |-> firstErr]
    ELSE LET e == MatchAt(s, i)
         IN  IF e = 0
             THEN ReplaceAllStringFunc(s, vs, i + 1, Append(acc, s[i]), firstErr)
             ELSE LET r == ReplFunc(SubSeq(s, i, e), vs, firstErr)
                  IN  ReplaceAllStringFunc(s, vs, e + 1, acc \o r.out,
                                           r.firstErr)

\* A substitute that scans its result once more.
substituteRescans(s, vs) ==
    LET first == ReplaceAllStringFunc(s, vs, 1, <<>>, NilErr)
    IN  IF first.firstErr # NilErr
        THEN [val |-> <<>>, err |-> first.firstErr]
        ELSE LET r == ReplaceAllStringFunc(first.result, vs, 1, <<>>, NilErr)
             IN  IF r.firstErr # NilErr
                 THEN [val |-> <<>>, err |-> r.firstErr]
                 ELSE [val |-> r.result, err |-> NilErr]

substitute(s, vs) ==
    LET r == ReplaceAllStringFunc(s, vs, 1, <<>>, NilErr)
    IN  IF r.firstErr # NilErr
        THEN [val |-> <<>>, err |-> r.firstErr]
        ELSE [val |-> r.result, err |-> NilErr]

ApplyToURL(url, vs) ==
    LET r == substitute(url, vs)
    IN  IF r.err # NilErr
        THEN [val |-> <<>>, err |-> Wrap("url substitution failed", NoArg, r.err)]
        ELSE [val |-> r.val, err |-> NilErr]

----------------------------------------------------------------------------
(* Go values held in an interface{}: a body is nil, a string, a number, a  *)
(* list or a string-keyed map of such values.  A number carries its Go     *)
(* type and its value as decimal text, so that 64-bit integers need no     *)
(* wide arithmetic.                                                        *)

GoNil == [t |-> "nil"]

GoString(str) == [t |-> "string", s |-> str]

GoNumber(kind, text) == [t |-> "number", kind |-> kind, text |-> text]

GoList(elems) == [t |-> "list", l |-> elems]

GoMap(fn) == [t |-> "map", m |-> fn]

EmptyMap == [k \in {} |-> GoNil]

\* The characters of the model in byte order; TAB, LF and CR are the
\* control characters.
ByteOrder ==
    << "TAB", "LF", "CR", " ", "\"", "$", ".", "/",
       "0", "1", "2", "3", "4", "5", "6", "7", "8", "9", ":", "<",
       "A", "B", "C", "D", "E", "F", "G", "H", "I", "J", "K", "L", "M",
       "N", "O", "P", "Q", "R", "S", "T", "U", "V", "W", "X", "Y", "Z",
       "[", "\\", "]", "_",
       "a", "b", "c", "d", "e", "f", "g", "h", "i", "j", "k", "l", "m",
       "n", "o", "p", "q", "r", "s", "t", "u", "v", "w", "x", "y", "z",
       "{", "}" >>

Ord(c) == CHOOSE n \in 1..Len(ByteOrder) : ByteOrder[n] = c

\* Go's < on strings.
RECURSIVE StrLess(_, _)
StrLess(a, b) ==
    IF b = <<>> THEN FALSE
    ELSE IF a = <<>> THEN TRUE
    ELSE IF a[1] # b[1] THEN Ord(a[1]) < Ord(b[1])
    ELSE StrLess(Tail(a), Tail(b))

RECURSIVE SortedKeys(_)
SortedKeys(K) ==
    IF K = {} THEN <<>>
    ELSE LET least == CHOOSE k \in K : \A o \in K \ {k} : StrLess(k, o)
         IN  <<least>> \o SortedKeys(K \ {least})

Digits == <<"0", "1", "2", "3", "4", "5", "6", "7", "8", "9">>

IsDigit(c) == \E n \in 1..10 : Digits[n] = c

DigitVal(c) == (CHOOSE n \in 1..10 : Digits[n] = c) - 1

----------------------------------------------------------------------------
(* encoding/json: Marshal                                                  *)

\* One character of a string as json.Marshal writes it (HTML escaping on).
EscapeChar(c) ==
    CASE c = "\"" -> <<"\\", "\"">>
      [] c = "\\" -> <<"\\", "\\">>
      [] c = "LF" -> <<"\\", "n">>
      [] c = "CR" -> <<"\\", "r">>
      [] c = "TAB" -> <<"\\", "t">>
      [] c = "<"  -> <<"\\", "u", "0", "0", "3", "c">>
      [] OTHER    -> <<c>>

RECURSIVE EscapeString(_)
EscapeString(str) ==
    IF str = <<>> THEN <<>>
    ELSE EscapeChar(Head(str)) \o EscapeString(Tail(str))

\* json.Marshal of a string: the escaped text between double quotes.
MarshalString(str) == <<"\"">> \o EscapeString(str) \o <<"\"">>

RECURSIVE Marshal(_)
RECURSIVE MarshalMembers(_, _)
RECURSIVE MarshalElems(_)

\* json.Marshal: map keys in sorted order, no white space.
Marshal(v) ==
    CASE v.t = "nil"    -> <<"n", "u", "l", "l">>
      [] v.t = "string" -> MarshalString(v.s)
      [] v.t = "number" -> v.text
      [] v.t = "list"   -> <<"[">> \o MarshalElems(v.l) \o <<"]">>
      [] v.t = "map"    ->
            <<"{">> \o MarshalMembers(v.m, SortedKeys(DOMAIN v.m)) \o <<"}">>

MarshalMembers(fn, keys) ==
    IF keys = <<>> THEN <<>>
    ELSE MarshalString(Head(keys)) \o <<":">> \o Marshal(fn[Head(keys)])
         \o (IF Len(keys) > 1 THEN <<",">> ELSE <<>>)
         \o MarshalMembers(fn, Tail(keys))

MarshalElems(elems) ==
    IF elems = <<>> THEN <<>>
    ELSE Marshal(Head(elems))
         \o (IF Len(elems) > 1 THEN <<",">> ELSE <<>>)
         \o MarshalElems(Tail(elems))

----------------------------------------------------------------------------
(* encoding/json: Unmarshal into an interface{}                            *)

\* 2^53, from which on float64 no longer holds every integer.
TwoTo53 ==
    <<"9", "0", "0", "7", "1", "9", "9", "2", "5", "4", "7", "4", "0", "9",
      "9", "2">>

\* < on decimal integer literals without leading zeros.
DecLess(a, b) == Len(a) < Len(b) \/ (Len(a) = Len(b) /\ StrLess(a, b))

RECURSIVE DecInc(_)
DecInc(d) ==
    IF d = <<>> THEN <<"1">>
    ELSE LET last  == d[Len(d)]
             front == SubSeq(d, 1, Len(d) - 1)
         IN  IF last = "9" THEN DecInc(front) \o <<"0">>
             ELSE Append(front, Digits[DigitVal(last) + 2])

\* d - 1 for a literal whose last digit is not 0.
DecDec(d) ==
    Append(SubSeq(d, 1, Len(d) - 1), Digits[DigitVal(d[Len(d)])])

\* The float64 nearest to a non-negative integer literal below 2^54, in the
\* decimal text strconv writes for it: exact below 2^53; from there on the
\* even integers only, a tie going to the even mantissa (a multiple of 4).
Float64Text(lit) ==
    IF DecLess(lit, TwoTo53) THEN lit
    ELSE LET n == Len(lit)
             r == (10 * DigitVal(lit[n - 1]) + DigitVal(lit[n])) % 4
         IN  CASE r = 1 -> DecDec(lit)
               [] r = 3 -> DecInc(lit)
               [] OTHER -> lit

ParseFail == [ok |-> FALSE, val |-> GoNil, next |-> 0]

Parsed(v, n) == [ok |-> TRUE, val |-> v, next |-> n]

\* The rest of a string literal from position i on, acc being what was read:
\* up to the closing quote, escapes decoded, a raw control character refused.
\* (The only \u escape read is the one Marshal writes for this alphabet.)
RECURSIVE ScanString(_, _, _)
ScanString(s, i, acc) ==
    IF i > Len(s) THEN ParseFail
    ELSE IF s[i] = "\"" THEN Parsed(acc, i + 1)
    ELSE IF s[i] \in {"LF", "TAB", "CR"} THEN ParseFail
    ELSE IF s[i] = "\\"
    THEN IF i + 1 > Len(s) THEN ParseFail
         ELSE CASE s[i + 1] = "\"" -> ScanString(s, i + 2, Append(acc, "\""))
                [] s[i + 1] = "\\" -> ScanString(s, i + 2, Append(acc, "\\"))
                [] s[i + 1] = "/"  -> ScanString(s, i + 2, Append(acc, "/"))
                [] s[i + 1] = "n"  -> ScanString(s, i + 2, Append(acc, "LF"))
                [] s[i + 1] = "t"  -> ScanString(s, i + 2, Append(acc, "TAB"))
                [] s[i + 1] = "r"  -> ScanString(s, i + 2, Append(acc, "CR"))
                [] s[i + 1] = "u"  ->
                      IF /\ i + 5 <= Len(s)
                         /\ SubSeq(s, i + 2, i + 5) = <<"0", "0", "3", "c">>
                      THEN ScanString(s, i + 6, Append(acc, "<"))
                      ELSE ParseFail
                [] OTHER -> ParseFail
    ELSE ScanString(s, i + 1, Append(acc, s[i]))

\* The end of the run of digits that starts at i.
RECURSIVE DigitsEnd(_, _)
DigitsEnd(s, i) ==
    IF i <= Len(s) /\ IsDigit(s[i]) THEN DigitsEnd(s, i + 1) ELSE i

RECURSIVE ParseValue(_, _)
RECURSIVE ParseMembers(_, _, _)
RECURSIVE ParseElems(_, _, _)

\* One JSON value at position i, decoded as Unmarshal decodes into an
\* interface{}: an object to a map (a repeated key keeps its last value), an
\* array to a list, a string to a string, a number to a float64.
ParseValue(s, i) ==
    IF i > Len(s) THEN ParseFail
    ELSE IF s[i] = "\""
    THEN LET r == ScanString(s, i + 1, <<>>)
         IN  IF r.ok THEN Parsed(GoString(r.val), r.next) ELSE ParseFail
    ELSE IF s[i] = "{"
    THEN IF i + 1 <= Len(s) /\ s[i + 1] = "}"
         THEN Parsed(GoMap(EmptyMap), i + 2)
         ELSE ParseMembers(s, i + 1, EmptyMap)
    ELSE IF s[i] = "["
    THEN IF i + 1 <= Len(s) /\ s[i + 1] = "]"
         THEN Parsed(GoList(<<>>), i + 2)
         ELSE ParseElems(s, i + 1, <<>>)
    ELSE IF IsDigit(s[i])
    THEN LET e == DigitsEnd(s, i)
         IN  IF s[i] = "0" /\ e > i + 1 THEN ParseFail
             ELSE Parsed(GoNumber("float64",
                                  Float64Text(SubSeq(s, i, e - 1))), e)
    ELSE IF i + 3 <= Len(s) /\ SubSeq(s, i, i + 3) = <<"n", "u", "l", "l">>
    THEN Parsed(GoNil, i + 4)
    ELSE ParseFail

\* The members of an object from position i on: "key":value, then , or }.
ParseMembers(s, i, acc) ==
    IF i > Len(s) \/ s[i] # "\"" THEN ParseFail
    ELSE LET k == ScanString(s, i + 1, <<>>)
         IN  IF ~k.ok \/ k.next > Len(s) \/ s[k.next] # ":" THEN ParseFail
             ELSE LET v == ParseValue(s, k.next + 1)
                  IN  IF ~v.ok \/ v.next > Len(s) THEN ParseFail
                      ELSE LET fn == [x \in DOMAIN acc \cup {k.val} |->
                                        IF x = k.val THEN v.val ELSE acc[x]]
                           IN  CASE s[v.next] = "," ->
                                       ParseMembers(s, v.next + 1, fn)
                                 [] s[v.next] = "}" ->
                                       Parsed(GoMap(fn), v.next + 1)
                                 [] OTHER -> ParseFail

\* The elements of an array from position i on: value, then , or ].
ParseElems(s, i, acc) ==
    LET v == ParseValue(s, i)
    IN  IF ~v.ok \/ v.next > Len(s) THEN ParseFail
        ELSE CASE s[v.next] = "," ->
                     ParseElems(s, v.next + 1, Append(acc, v.val))
               [] s[v.next] = "]" ->
                     Parsed(GoList(Append(acc, v.val)), v.next + 1)
               [] OTHER -> ParseFail

\* json.Unmarshal(data, &result) with result an interface{}.
Unmarshal(data) ==
    LET r == ParseValue(data, 1)
    IN  IF r.ok /\ r.next = Len(data) + 1
        THEN [ok |-> TRUE, val |-> r.val]
        ELSE [ok |-> FALSE, val |-> GoNil]

----------------------------------------------------------------------------
(* Maps and structured bodies are references.  The heap is the sequence of *)
(* the cells allocated so far and an address is an index into it; 0 is the *)
(* nil map.  The cell of a map[string]string is a function from keys to    *)
(* strings; the cell of a structured body is its value, nested values      *)
(* included.  The variable context is a cell too.                          *)

NilMap == 0

EmptyStrMap == [k \in {} |-> <<>>]

GoRef(addr) == [t |-> "ref", addr |-> addr]

\* make(map[string]string, n)
MakeMap(h) == [heap |-> Append(h, EmptyStrMap), addr |-> Len(h) + 1]

\* m[k] = v for the map at addr
MapStore(h, addr, k, v) ==
    [h EXCEPT ![addr] =
        [x \in DOMAIN h[addr] \cup {k} |-> IF x = k THEN v ELSE h[addr][x]]]

\* The keys of the map at addr; ranging over a nil map visits nothing.
KeysOf(h, addr) == IF addr = NilMap THEN {} ELSE DOMAIN h[addr]

\* The orders in which a range over the keys K may visit them.
RangeOrders(K) ==
    { o \in [1..Cardinality(K) -> K] :
        \A i, j \in 1..Cardinality(K) : i # j => o[i] # o[j] }

Returns(h, v, err) == [heap |-> h, val |-> v, err |-> err]

\* The loop of ApplyToHeaders and ApplyToQuery over the keys still to visit.
RECURSIVE ApplyLoop(_, _, _, _, _, _)
ApplyLoop(h, src, dst, vaddr, keys, msg) ==
    IF keys = <<>> THEN Returns(h, dst, NilErr)
    ELSE LET k == Head(keys)
             r == substitute(h[src][k], h[vaddr])
         IN  IF r.err # NilErr
             THEN Returns(h, NilMap, Wrap(msg, k, r.err))
             ELSE ApplyLoop(MapStore(h, dst, k, r.val), src, dst, vaddr,
                            Tail(keys), msg)

\* ApplyToHeaders writing into the map it was given (result := headers).
ApplyToHeadersInPlace(h, headers, vaddr, order) ==
    ApplyLoop(h, headers, headers, vaddr, order, "header substitution failed")

ApplyToHeaders(h, headers, vaddr, order) ==
    LET made == MakeMap(h)
    IN  ApplyLoop(made.heap, headers, made.addr, vaddr, order,
                  "header substitution failed")

\* An ApplyToQuery that returns the nil map it was given.
ApplyToQueryNilForNil(h, query, vaddr, order) ==
    IF query = NilMap THEN Returns(h, NilMap, NilErr)
    ELSE LET made == MakeMap(h)
         IN  ApplyLoop(made.heap, query, made.addr, vaddr, order,
                       "query param substitution failed")

ApplyToQuery(h, query, vaddr, order) ==
    LET made == MakeMap(h)
    IN  ApplyLoop(made.heap, query, made.addr, vaddr, order,
                  "query param substitution failed")

\* The value an interface{} holds: the cell of a structured one, else itself.
Deref(h, v) == IF v.t = "ref" THEN h[v.addr] ELSE v

\* A decoded value as an interface{}: a map or list in a cell of its own.
Box(h, v) ==
    IF v.t \in {"map", "list"}
    THEN Returns(Append(h, v), GoRef(Len(h) + 1), NilErr)
    ELSE Returns(h, v, NilErr)

\* The value as it is, without JSON escaping.
JSONEscapeRaw(v) == v

\* string(escaped[1 : len(escaped)-1]) of escaped = json.Marshal(v)
JSONEscape(v) ==
    LET escaped == MarshalString(v)
    IN  SubSeq(escaped, 2, Len(escaped) - 1)

\* An ApplyToBody that JSON-escapes the values put into a string body too.
ApplyToBodyEscapesStrings(h, body, vaddr) ==
    IF body.t = "nil" THEN Returns(h, GoNil, NilErr)
    ELSE LET jsonVars == [k \in DOMAIN h[vaddr] |-> JSONEscape(h[vaddr][k])]
         IN  IF body.t = "string"
             THEN LET r == substitute(body.s, jsonVars)
                  IN  IF r.err # NilErr
                      THEN Returns(h, GoNil,
                                   Wrap("body substitution failed", NoArg, r.err))
                      ELSE Returns(h, GoString(r.val), NilErr)
             ELSE LET raw         == Marshal(Deref(h, body))
                      substituted == substitute(raw, jsonVars)
                  IN  IF substituted.err # NilErr
                      THEN Returns(h, GoNil,
                                   Wrap("body substitution failed", NoArg,
                                        substituted.err))
                      ELSE LET result == Unmarshal(substituted.val)
                           IN  IF ~result.ok
                               THEN Returns(h, GoNil,
                                       Errorf("body unmarshalling after substitution failed",
                                              NoArg))
                               ELSE Box(h, result.val)

ApplyToBody(h, body, vaddr) ==
    IF body.t = "nil" THEN Returns(h, GoNil, NilErr)
    ELSE IF body.t = "string"
    THEN LET r == substitute(body.s, h[vaddr])
         IN  IF r.err # NilErr
             THEN Returns(h, GoNil,
                          Wrap("body substitution failed", NoArg, r.err))
             ELSE Returns(h, GoString(r.val), NilErr)
    ELSE LET jsonVars    == [k \in DOMAIN h[vaddr] |-> JSONEscape(h[vaddr][k])]
             raw         == Marshal(Deref(h, body))
             substituted == substitute(raw, jsonVars)
         IN  IF substituted.err # NilErr
             THEN Returns(h, GoNil,
                          Wrap("body substitution failed", NoArg,
                               substituted.err))
             ELSE LET result == Unmarshal(substituted.val)
                  IN  IF ~result.ok
                      THEN Returns(h, GoNil,
                              Errorf("body unmarshalling after substitution failed",
                                     NoArg))
                      ELSE Box(h, result.val)

\* A time.Duration: whole seconds and the nanoseconds beyond them.
ZeroDuration == [sec |-> 0, nsec |-> 0]

\* Step{}
ZeroStep ==
    [Request |-> <<>>, Headers |-> NilMap, Query |-> NilMap,
     PathParams |-> NilMap, Body |-> GoNil, Delay |-> ZeroDuration,
     SaveToContext |-> NilMap, NextSteps |-> NilMap]

\* strings.SplitN(str, sep, 2): str itself when sep does not occur in it.
SplitN2(str, sep) ==
    LET at == { i \in 1..Len(str) : str[i] = sep }
    IN  IF at = {} THEN <<str>>
        ELSE <<SubSeq(str, 1, Min(at) - 1), SubSeq(str, Min(at) + 1, Len(str))>>

\* ApplyToStep is a chain of five stages.  Each takes what the stages before
\* it left, acc = [heap, val, err] with val the copy of the Step built so
\* far, and is skipped once one of them has returned an error.

\* A request stage that substitutes in the whole request, method included.
StageRequestSubstitutesMethod(h, st, vaddr) ==
    LET parts == SplitN2(st.Request, " ")
    IN  IF Len(parts) = 2
        THEN LET r == ApplyToURL(st.Request, h[vaddr])
             IN  IF r.err # NilErr
                 THEN Returns(h, ZeroStep,
                              Wrap("request path substitution failed", NoArg,
                                   r.err))
                 ELSE Returns(h, [st EXCEPT !.Request = r.val], NilErr)
        ELSE Returns(h, st, NilErr)

\* A request stage that substitutes in a request without a space too.
StageRequestSubstitutesUnsplit(h, st, vaddr) ==
    LET parts == SplitN2(st.Request, " ")
        r     == ApplyToURL(parts[Len(parts)], h[vaddr])
    IN  IF r.err # NilErr
        THEN Returns(h, ZeroStep,
                     Wrap("request path substitution failed", NoArg, r.err))
        ELSE IF Len(parts) = 2
             THEN Returns(h, [st EXCEPT !.Request =
                                 parts[1] \o <<" ">> \o r.val], NilErr)
             ELSE Returns(h, [st EXCEPT !.Request = r.val], NilErr)

\* result := step, then the request path.
StageRequest(h, st, vaddr) ==
    LET parts == SplitN2(st.Request, " ")
    IN  IF Len(parts) = 2
        THEN LET r == ApplyToURL(parts[2], h[vaddr])
             IN  IF r.err # NilErr
                 THEN Returns(h, ZeroStep,
                              Wrap("request path substitution failed", NoArg,
                                   r.err))
                 ELSE Returns(h, [st EXCEPT !.Request =
                                     parts[1] \o <<" ">> \o r.val], NilErr)
        ELSE Returns(h, st, NilErr)

\* A headers stage that gives a Step without headers an empty map.
StageHeadersMakesEmpty(acc, st, vaddr, order) ==
    IF acc.err # NilErr THEN acc
    ELSE LET r == ApplyToHeaders(acc.heap, st.Headers, vaddr, order)
         IN  IF r.err # NilErr THEN Returns(r.heap, ZeroStep, r.err)
             ELSE Returns(r.heap, [acc.val EXCEPT !.Headers = r.val], NilErr)

StageHeaders(acc, st, vaddr, order) ==
    IF acc.err # NilErr \/ st.Headers = NilMap THEN acc
    ELSE LET r == ApplyToHeaders(acc.heap, st.Headers, vaddr, order)
         IN  IF r.err # NilErr THEN Returns(r.heap, ZeroStep, r.err)
             ELSE Returns(r.heap, [acc.val EXCEPT !.Headers = r.val], NilErr)

StageQuery(acc, st, vaddr, order) ==
    IF acc.err # NilErr \/ st.Query = NilMap THEN acc
    ELSE LET r == ApplyToQuery(acc.heap, st.Query, vaddr, order)
         IN  IF r.err # NilErr THEN Returns(r.heap, ZeroStep, r.err)
             ELSE Returns(r.heap, [acc.val EXCEPT !.Query = r.val], NilErr)

\* The path parameters stage handing on ApplyToQuery's error as it is.
StagePathParamsUnwrapped(acc, st, vaddr, order) ==
    IF acc.err # NilErr \/ st.PathParams = NilMap THEN acc
    ELSE LET r == ApplyToQuery(acc.heap, st.PathParams, vaddr, order)
         IN  IF r.err # NilErr THEN Returns(r.heap, ZeroStep, r.err)
             ELSE Returns(r.heap, [acc.val EXCEPT !.PathParams = r.val],
                          NilErr)

StagePathParams(acc, st, vaddr, order) ==
    IF acc.err # NilErr \/ st.PathParams = NilMap THEN acc
    ELSE LET r == ApplyToQuery(acc.heap, st.PathParams, vaddr, order)
         IN  IF r.err # NilErr
             THEN Returns(r.heap, ZeroStep,
                          Wrap("path_params substitution failed", NoArg, r.err))
             ELSE Returns(r.heap, [acc.val EXCEPT !.PathParams = r.val],
                          NilErr)

\* A body stage that returns, with the error, the Step built so far.
StageBodyReturnsPartial(acc, st, vaddr) ==
    IF acc.err # NilErr \/ st.Body.t = "nil" THEN acc
    ELSE LET r == ApplyToBody(acc.heap, st.Body, vaddr)
         IN  IF r.err # NilErr THEN Returns(r.heap, acc.val, r.err)
             ELSE Returns(r.heap, [acc.val EXCEPT !.Body = r.val], NilErr)

StageBody(acc, st, vaddr) ==
    IF acc.err # NilErr \/ st.Body.t = "nil" THEN acc
    ELSE LET r == ApplyToBody(acc.heap, st.Body, vaddr)
         IN  IF r.err # NilErr THEN Returns(r.heap, ZeroStep, r.err)
             ELSE Returns(r.heap, [acc.val EXCEPT !.Body = r.val], NilErr)

\* ApplyToStep, the three ranges over maps visiting their keys in the orders
\* given.
ApplyToStep(h, st, vaddr, orderH, orderQ, orderP) ==
    StageBody(
        StagePathParams(
            StageQuery(
                StageHeaders(StageRequest(h, st, vaddr), st, vaddr, orderH),
                st, vaddr, orderQ),
            st, vaddr, orderP),
        st, vaddr)

----------------------------------------------------------------------------
(* The scenario model as the validator reads it.  Validate only reads, so  *)
(* a Scenario holds its Steps, and a Step its NextSteps, by value.         *)
(* p.scenario is a pointer: the empty sequence when nil, else the sequence *)
(* of the one Scenario it points to.                                       *)

\* A time.Duration of sec seconds and nsec nanoseconds, 0 <= nsec < 10^9.
Dur(sec, nsec) == [sec |-> sec, nsec |-> nsec]

DurLess(a, b) == a.sec < b.sec \/ (a.sec = b.sec /\ a.nsec < b.nsec)

\* A maxDelay of nine minutes.
maxDelayNineMinutes == Dur(540, 0)

\* const maxDelay = 10 * time.Minute
maxDelay == Dur(600, 0)

MaxDurationSeconds == 31556952

MethodGet == <<"G", "E", "T">>
MethodPost == <<"P", "O", "S", "T">>
MethodPut == <<"P", "U", "T">>
MethodPatch == <<"P", "A", "T", "C", "H">>
MethodDelete == <<"D", "E", "L", "E", "T", "E">>
MethodHead == <<"H", "E", "A", "D">>

\* What formats into a validation error: the step, the next step and the
\* item within it (indices from 0, -1 where there is none), and the text.
At(i, j, k, text) == [step |-> i, next |-> j, item |-> k, text |-> text]

ValidationErr(msg, i, j, k, text) == Errorf(msg, At(i, j, k, text))

FindStep(sc, request) ==
    LET hits == { i \in 1..Len(sc.Steps) : sc.Steps[i].Request = request }
    IN  IF hits = {} THEN 0 ELSE Min(hits)

\* A parseRequest that accepts any path.
parseRequestAnyPath(request) ==
    LET parts == SplitN2(request, " ")
        validMethods == <<MethodGet, MethodPost, MethodPut, MethodPatch,
                          MethodDelete, MethodHead>>
        failed(msg, text) ==
            [method |-> <<>>, path |-> <<>>, err |-> Errorf(msg, text)]
    IN  IF request = <<>> THEN failed("request cannot be empty", NoArg)
        ELSE IF Len(parts) # 2
        THEN failed("invalid request format, expected 'METHOD /path'", request)
        ELSE IF ~ \E n \in 1..Len(validMethods) : validMethods[n] = parts[1]
        THEN failed("invalid HTTP method", parts[1])
        ELSE [method |-> parts[1], path |-> parts[2], err |-> NilErr]

parseRequest(request) ==
    LET parts == SplitN2(request, " ")
        validMethods == <<MethodGet, MethodPost, MethodPut, MethodPatch,
                          MethodDelete, MethodHead>>
        failed(msg, text) ==
            [method |-> <<>>, path |-> <<>>, err |-> Errorf(msg, text)]
    IN  IF request = <<>> THEN failed("request cannot be empty", NoArg)
        ELSE IF Len(parts) # 2
        THEN failed("invalid request format, expected 'METHOD /path'", request)
        ELSE IF ~ \E n \in 1..Len(validMethods) : validMethods[n] = parts[1]
        THEN failed("invalid HTTP method", parts[1])
        ELSE IF ~ (Len(parts[2]) >= 1 /\ parts[2][1] = "/")
        THEN failed("path must start with '/'", parts[2])
        ELSE [method |-> parts[1], path |-> parts[2], err |-> NilErr]

\* The value of a run of decimal digits, held at AtoiCap once it reaches it
\* (every use compares the value with smaller numbers only).
RECURSIVE DigitsValue(_, _)
DigitsValue(ds, acc) ==
    IF ds = <<>> THEN acc
    ELSE DigitsValue(Tail(ds),
                     IF 10 * acc + DigitVal(Head(ds)) >= 1000 THEN 1000
                     ELSE 10 * acc + DigitVal(Head(ds)))

\* strconv.Atoi on literals of at most 18 digits: an optional sign, then one
\* or more decimal digits.
Atoi(str) ==
    LET signed == Len(str) >= 1 /\ str[1] \in {"+", "-"}
        ds     == IF signed THEN Tail(str) ELSE str
    IN  IF ds = <<>> \/ \E n \in 1..Len(ds) : ~IsDigit(ds[n])
        THEN [ok |-> FALSE, n |-> 0]
        ELSE [ok |-> TRUE,
              n  |-> IF signed /\ str[1] = "-" THEN 0 - DigitsValue(ds, 0)
                     ELSE DigitsValue(ds, 0)]

validateStatusCode(code) ==
    IF code = <<>> THEN Errorf("status code cannot be empty", NoArg)
    ELSE IF Len(code) = 3 /\ SubSeq(code, 2, 3) = <<"x", "x">>
    THEN IF code[1] \notin {"1", "2", "3", "4", "5"}
         THEN Errorf("wildcard must be 1xx-5xx", code)
         ELSE NilErr
    ELSE LET r == Atoi(code)
         IN  IF ~r.ok THEN Errorf("invalid status code format", code)
             ELSE IF r.n < 100 \/ r.n >= 600
             THEN Errorf("status code must be 100-599", code)
             ELSE NilErr

\* A validateMapping whose targets include response.
validateMappingResponseTarget(source, target) ==
    LET validSources == { <<"r", "e", "s", "p", "o", "n", "s", "e">>, <<"h", "e", "a", "d", "e", "r", "s">>, <<"q", "u", "e", "r", "y">>, <<"p", "a", "t", "h", "_", "p", "a", "r", "a", "m", "s">>,
                          <<"b", "o", "d", "y">>, <<"c", "o", "o", "k", "i", "e", "s">>, <<"v", "a", "r", "i", "a", "b", "l", "e", "s">> }
        validTargets == { <<"r", "e", "s", "p", "o", "n", "s", "e">>,
                          <<"h", "e", "a", "d", "e", "r", "s">>, <<"q", "u", "e", "r", "y">>, <<"p", "a", "t", "h", "_", "p", "a", "r", "a", "m", "s">>,
                          <<"b", "o", "d", "y">>, <<"c", "o", "o", "k", "i", "e", "s">>, <<"v", "a", "r", "i", "a", "b", "l", "e", "s">> }
        sourceParts  == SplitN2(source, ".")
        targetParts  == SplitN2(target, ".")
    IN  IF Len(sourceParts) # 2
        THEN Errorf("invalid source format, expected 'source.field'", source)
        ELSE IF sourceParts[1] \notin validSources
        THEN Errorf("invalid source", sourceParts[1])
        ELSE IF Len(targetParts) # 2
        THEN Errorf("invalid target format, expected 'target.field'", target)
        ELSE IF targetParts[1] \notin validTargets
        THEN Errorf("invalid target", targetParts[1])
        ELSE NilErr

validateMapping(source, target) ==
    LET validSources == { <<"r", "e", "s", "p", "o", "n", "s", "e">>, <<"h", "e", "a", "d", "e", "r", "s">>, <<"q", "u", "e", "r", "y">>, <<"p", "a", "t", "h", "_", "p", "a", "r", "a", "m", "s">>,
                          <<"b", "o", "d", "y">>, <<"c", "o", "o", "k", "i", "e", "s">>, <<"v", "a", "r", "i", "a", "b", "l", "e", "s">> }
        validTargets == { <<"h", "e", "a", "d", "e", "r", "s">>, <<"q", "u", "e", "r", "y">>, <<"p", "a", "t", "h", "_", "p", "a", "r", "a", "m", "s">>,
                          <<"b", "o", "d", "y">>, <<"c", "o", "o", "k", "i", "e", "s">>, <<"v", "a", "r", "i", "a", "b", "l", "e", "s">> }
        sourceParts  == SplitN2(source, ".")
        targetParts  == SplitN2(target, ".")
    IN  IF Len(sourceParts) # 2
        THEN Errorf("invalid source format, expected 'source.field'", source)
        ELSE IF sourceParts[1] \notin validSources
        THEN Errorf("invalid source", sourceParts[1])
        ELSE IF Len(targetParts) # 2
        THEN Errorf("invalid target format, expected 'target.field'", target)
        ELSE IF targetParts[1] \notin validTargets
        THEN Errorf("invalid target", targetParts[1])
        ELSE NilErr

\* The first status code, from index k on, that validateStatusCode refuses.
RECURSIVE ValidateStatusCodes(_, _, _, _)
ValidateStatusCodes(codes, i, j, k) ==
    IF k > Len(codes) THEN NilErr
    ELSE LET err == validateStatusCode(codes[k])
         IN  IF err # NilErr
             THEN Wrap("step, next_step, status_code", At(i - 1, j - 1, k - 1, <<>>),
                       err)
             ELSE ValidateStatusCodes(codes, i, j, k + 1)

\* The range over nextStep.Map, its keys visited in the order given.
RECURSIVE ValidateMappings(_, _, _, _)
ValidateMappings(map, keys, i, j) ==
    IF keys = <<>> THEN NilErr
    ELSE LET err == validateMapping(Head(keys), map[Head(keys)])
         IN  IF err # NilErr
             THEN Wrap("step, next_step: invalid mapping",
                       At(i - 1, j - 1, -1, Head(keys)), err)
             ELSE ValidateMappings(map, Tail(keys), i, j)

\* The keys of map in the order in which rank, a sequence holding every key,
\* lists them.
KeysInOrder(map, rank) ==
    LET pos(k)   == CHOOSE n \in 1..Len(rank) : rank[n] = k
        before(a, b) == pos(a) < pos(b)
        K == DOMAIN map
    IN  CHOOSE o \in RangeOrders(K) :
            \A m, n \in 1..Cardinality(K) : m < n => before(o[m], o[n])

\* ValidateNextStep without the lookup of the target step.
ValidateNextStepNoTargetCheck(sc, i, j, rank) ==
    LET nextStep == sc.Steps[i].NextSteps[j]
        parsed   == parseRequest(nextStep.Request)
        codesErr == ValidateStatusCodes(nextStep.StatusCodes, i, j, 1)
    IN  IF nextStep.Request = <<>>
        THEN ValidationErr("step, next_step: request field is required",
                           i - 1, j - 1, -1, <<>>)
        ELSE IF parsed.err # NilErr
        THEN Wrap("step, next_step", At(i - 1, j - 1, -1, <<>>), parsed.err)
        ELSE IF codesErr # NilErr THEN codesErr
        ELSE ValidateMappings(nextStep.Map, KeysInOrder(nextStep.Map, rank),
                              i, j)

\* The body of the loop over step.NextSteps for next step j of step i.
ValidateNextStep(sc, i, j, rank) ==
    LET nextStep == sc.Steps[i].NextSteps[j]
        parsed   == parseRequest(nextStep.Request)
        codesErr == ValidateStatusCodes(nextStep.StatusCodes, i, j, 1)
    IN  IF nextStep.Request = <<>>
        THEN ValidationErr("step, next_step: request field is required",
                           i - 1, j - 1, -1, <<>>)
        ELSE IF parsed.err # NilErr
        THEN Wrap("step, next_step", At(i - 1, j - 1, -1, <<>>), parsed.err)
        ELSE IF FindStep(sc, nextStep.Request) = 0
        THEN ValidationErr("step, next_step: target step not found",
                           i - 1, j - 1, -1, nextStep.Request)
        ELSE IF codesErr # NilErr THEN codesErr
        ELSE ValidateMappings(nextStep.Map, KeysInOrder(nextStep.Map, rank),
                              i, j)

RECURSIVE ValidateNextSteps(_, _, _, _)
ValidateNextSteps(sc, i, j, rank) ==
    IF j > Len(sc.Steps[i].NextSteps) THEN NilErr
    ELSE LET err == ValidateNextStep(sc, i, j, rank)
         IN  IF err # NilErr THEN err
             ELSE ValidateNextSteps(sc, i, j + 1, rank)

\* ValidateStep without the uniqueRequests check.
ValidateStepNoDuplicateCheck(sc, i, uniqueRequests, rank) ==
    LET st     == sc.Steps[i]
        parsed == parseRequest(st.Request)
    IN  IF st.Request = <<>>
        THEN ValidationErr("step: request field is required", i - 1, -1, -1,
                           <<>>)
        ELSE IF parsed.err # NilErr
        THEN Wrap("step", At(i - 1, -1, -1, <<>>), parsed.err)
        ELSE IF parsed.method \in {MethodGet, MethodHead} /\ st.Body # GoNil
        THEN ValidationErr("step: GET and HEAD requests cannot have a body",
                           i - 1, -1, -1, st.Request)
        ELSE IF st.Delay.sec < 0
        THEN ValidationErr("step: delay must be non-negative", i - 1, -1, -1,
                           st.Request)
        ELSE IF DurLess(maxDelay, st.Delay)
        THEN ValidationErr("step: delay must not exceed", i - 1, -1, -1,
                           st.Request)
        ELSE ValidateNextSteps(sc, i, 1, rank)

\* A loop body that lets a GET step carry a body.
ValidateStepAllowsGetBody(sc, i, uniqueRequests, rank) ==
    LET st     == sc.Steps[i]
        parsed == parseRequest(st.Request)
    IN  IF st.Request = <<>>
        THEN ValidationErr("step: request field is required", i - 1, -1, -1,
                           <<>>)
        ELSE IF st.Request \in uniqueRequests
        THEN ValidationErr("step: duplicate request", i - 1, -1, -1,
                           st.Request)
        ELSE IF parsed.err # NilErr
        THEN Wrap("step", At(i - 1, -1, -1, <<>>), parsed.err)
        ELSE IF parsed.method = MethodHead /\ st.Body # GoNil
        THEN ValidationErr("step: GET and HEAD requests cannot have a body",
                           i - 1, -1, -1, st.Request)
        ELSE IF st.Delay.sec < 0
        THEN ValidationErr("step: delay must be non-negative", i - 1, -1, -1,
                           st.Request)
        ELSE IF DurLess(maxDelay, st.Delay)
        THEN ValidationErr("step: delay must not exceed", i - 1, -1, -1,
                           st.Request)
        ELSE ValidateNextSteps(sc, i, 1, rank)

\* The body of the loop over p.scenario.Steps for step i, uniqueRequests
\* holding the requests of the steps before it.
ValidateStep(sc, i, uniqueRequests, rank) ==
    LET st     == sc.Steps[i]
        parsed == parseRequest(st.Request)
    IN  IF st.Request = <<>>
        THEN ValidationErr("step: request field is required", i - 1, -1, -1,
                           <<>>)
        ELSE IF st.Request \in uniqueRequests
        THEN ValidationErr("step: duplicate request", i - 1, -1, -1,
                           st.Request)
        ELSE IF parsed.err # NilErr
        THEN Wrap("step", At(i - 1, -1, -1, <<>>), parsed.err)
        ELSE IF parsed.method \in {MethodGet, MethodHead} /\ st.Body # GoNil
        THEN ValidationErr("step: GET and HEAD requests cannot have a body",
                           i - 1, -1, -1, st.Request)
        ELSE IF st.Delay.sec < 0
        THEN ValidationErr("step: delay must be non-negative", i - 1, -1, -1,
                           st.Request)
        ELSE IF DurLess(maxDelay, st.Delay)
        THEN ValidationErr("step: delay must not exceed", i - 1, -1, -1,
                           st.Request)
        ELSE ValidateNextSteps(sc, i, 1, rank)

\* A loop over the steps that runs to the end and returns the error of the
\* last step that has one.
ValidateStepsReportsLast(sc, i, uniqueRequests, rank) ==
    LET before(k) == { sc.Steps[m].Request : m \in 1..(k - 1) }
        failing   == { k \in i..Len(sc.Steps) :
                          ValidateStep(sc, k, before(k), rank) # NilErr }
        last      == CHOOSE k \in failing : \A m \in failing : m <= k
    IN  IF failing = {} THEN NilErr
        ELSE ValidateStep(sc, last, before(last), rank)

RECURSIVE ValidateSteps(_, _, _, _)
ValidateSteps(sc, i, uniqueRequests, rank) ==
    IF i > Len(sc.Steps) THEN NilErr
    ELSE LET err == ValidateStep(sc, i, uniqueRequests, rank)
         IN  IF err # NilErr THEN err
             ELSE ValidateSteps(sc, i + 1,
                                uniqueRequests \cup {sc.Steps[i].Request}, rank)

\* Scenario-level checks that refuse a duration of a whole year.
ValidateFieldsYearExcluded(ptr) ==
    IF ptr = <<>> THEN Errorf("no scenario loaded", NoArg)
    ELSE LET sc == ptr[1]
         IN  IF sc.Name = <<>> THEN Errorf("scenario.name is required", NoArg)
             ELSE IF sc.BaseURL = <<>>
             THEN Errorf("scenario.base_url is required", NoArg)
             ELSE IF sc.VirtualUsers <= 0
             THEN Errorf("scenario.virtual_users must be greater than 0", NoArg)
             ELSE IF sc.Duration <= 0
             THEN Errorf("scenario.duration must be greater than 0", NoArg)
             ELSE IF sc.Duration >= MaxDurationSeconds
             THEN Errorf("scenario.duration must be less than 1 year", NoArg)
             ELSE IF Len(sc.Steps) = 0
             THEN Errorf("scenario.steps: at least one step is required", NoArg)
             ELSE NilErr

\* The checks of Validate that precede the loop over the steps: the loaded
\* scenario and its scenario-level fields.
ValidateFields(ptr) ==
    IF ptr = <<>> THEN Errorf("no scenario loaded", NoArg)
    ELSE LET sc == ptr[1]
         IN  IF sc.Name = <<>> THEN Errorf("scenario.name is required", NoArg)
             ELSE IF sc.BaseURL = <<>>
             THEN Errorf("scenario.base_url is required", NoArg)
             ELSE IF sc.VirtualUsers <= 0
             THEN Errorf("scenario.virtual_users must be greater than 0", NoArg)
             ELSE IF sc.Duration <= 0
             THEN Errorf("scenario.duration must be greater than 0", NoArg)
             ELSE IF sc.Duration > MaxDurationSeconds
             THEN Errorf("scenario.duration must be less than 1 year", NoArg)
             ELSE IF Len(sc.Steps) = 0
             THEN Errorf("scenario.steps: at least one step is required", NoArg)
             ELSE NilErr

\* Validate on the parser whose p.scenario is ptr, the ranges over the maps
\* of the next steps visiting their keys in the order of rank.
Validate(ptr, rank) ==
    LET err == ValidateFields(ptr)
    IN  IF err # NilErr THEN err ELSE ValidateSteps(ptr[1], 1, {}, rank)

----------------------------------------------------------------------------
(* Specification of the string primitives: one call of substitute or of    *)
(* ApplyToURL on a template and a context drawn from the pools.            *)

NoRet == [val |-> <<>>, err |-> NilErr]

SubInit ==
    /\ op = "none"
    /\ template \in Templates
    /\ vars \in Contexts
    /\ ret = NoRet
    /\ doc = <<>>
    /\ heap = <<>>
    /\ step = ZeroStep
    /\ scenario = <<>>
    /\ callers = <<>>
    /\ args = <<>>

CallSubstitute ==
    /\ op = "none"
    /\ op' = "substitute"
    /\ ret' = substitute(template, vars)
    /\ UNCHANGED <<template, vars, heap, step, scenario, callers, args, doc>>

CallApplyToURL ==
    /\ op = "none"
    /\ op' = "ApplyToURL"
    /\ ret' = ApplyToURL(template, vars)
    /\ UNCHANGED <<template, vars, heap, step, scenario, callers, args, doc>>

SubNext == CallSubstitute \/ CallApplyToURL

SpecSub == SubInit /\ [][SubNext]_allVars

----------------------------------------------------------------------------
(* Specification of the operations on a Step: one call of ApplyToStep,     *)
(* ApplyToHeaders, ApplyToQuery or ApplyToBody on a Step and a context     *)
(* drawn from the pools.  The context is the first cell of the heap and    *)
(* the maps of the Step follow it.                                         *)

VarsAddr == 1

Absent == [present |-> FALSE, cell |-> EmptyStrMap]

Present(content) == [present |-> TRUE, cell |-> content]

\* A map or slice field: nil when absent, else a cell of its own.
Place(h, opt) ==
    IF opt.present
    THEN [heap |-> Append(h, opt.cell), val |-> Len(h) + 1]
    ELSE [heap |-> h, val |-> NilMap]

\* A body: a structured one in a cell of its own.
PlaceBody(h, b) ==
    IF b.t \in {"map", "list"}
    THEN [heap |-> Append(h, b), val |-> GoRef(Len(h) + 1)]
    ELSE [heap |-> h, val |-> b]

StepContexts ==
    { EmptyStrMap,
      (<<"a">> :> <<"x">>),
      (<<"a">> :> <<"q", "\"", "\\", "LF", "<">>),
      (<<"a">> :> <<"x">> @@ <<"b">> :> <<"y">>) }

RequestPool ==
    { <<"G", "E", "T", " ", "/", "a">>,
      <<"G", "E", "T", " ", "/", "$", "{", "a", "}">>,
      <<"G", "E", "T", " ", "/", "$", "{", "b", "}">>,
      <<"G", "E", "T", "/", "$", "{", "b", "}">>,
      <<"$", "{", "b", "}", " ", "/", "a">>,
      <<"$", "{", "b", "}", " ", "/", "$", "{", "a", "}", " ", "z">> }

HeadersPool ==
    { Absent, Present(EmptyStrMap),
      Present((<<"h">> :> <<"v">>)),
      Present((<<"h">> :> <<"$", "{", "a", "}">>)),
      Present((<<"h">> :> <<"$", "{", "b", "}">>)),
      Present((<<"g">> :> <<"$", "{", "c", "}">> @@ <<"h">> :> <<"$", "{", "b", "}">>)),
      Present((<<"g">> :> <<"$", "{", "a", "}">> @@ <<"h">> :> <<"$", "{", "b", "}">>)) }

QueryPool ==
    { Absent,
      Present((<<"q">> :> <<"$", "{", "a", "}">>)),
      Present((<<"q">> :> <<"$", "{", "b", "}">>)) }

PathParamsPool ==
    { Absent,
      Present((<<"p">> :> <<"$", "{", "a", "}">>)),
      Present((<<"p">> :> <<"$", "{", "b", "}">>)) }

StepBodyPool ==
    { GoNil,
      GoString(<<"t", "$", "{", "a", "}">>),
      GoString(<<"$", "{", "b", "}">>),
      GoMap(<<"k">> :> GoString(<<"$", "{", "a", "}">>)),
      GoMap(<<"k">> :> GoString(<<"$", "{", "b", "}">>)),
      GoMap(<<"k">> :> GoString(<<"x">>) @@ <<"n">> :> GoNumber("int", <<"4", "2">>)) }

DelayPool == { ZeroDuration, [sec |-> 2, nsec |-> 0] }

\* The delays tried with a SaveToContext and NextSteps: both of them with
\* the Steps that have the two fields, no delay with the others.
DelaysWith(sc, ns) ==
    IF sc.present /\ ns.present THEN DelayPool ELSE {ZeroDuration}

SaveToContextPool ==
    { Absent, Present((<<"s">> :> <<"r">>)) }

\* A NextStep, its status codes and its map held in the slice's cell.
NextStepsPool ==
    { Absent,
      Present(<<[Request |-> <<"G", "E", "T", " ", "/", "a">>,
                 StatusCodes |-> <<<<"2", "0", "0">>>>,
                 Map |-> (<<"r", "e", "s", "p", "o", "n", "s", "e", ".", "i", "d">> :> <<"v", "a", "r", "i", "a", "b", "l", "e", "s", ".", "a">>)]>>) }

StepInit ==
    /\ op = "none"
    /\ template = <<>>
    /\ vars = EmptyStrMap
    /\ ret = NoRet
    /\ doc = <<>>
    /\ scenario = <<>>
    /\ callers = <<>>
    /\ args = <<>>
    /\ \E ctx \in StepContexts, req \in RequestPool, hd \in HeadersPool,
          qu \in QueryPool, pp \in PathParamsPool, bd \in StepBodyPool,
          sc \in SaveToContextPool, ns \in NextStepsPool :
          \E dl \in DelaysWith(sc, ns) :
          LET h  == Place(<<ctx>>, hd)
              q  == Place(h.heap, qu)
              p  == Place(q.heap, pp)
              b  == PlaceBody(p.heap, bd)
              s  == Place(b.heap, sc)
              n  == Place(s.heap, ns)
          IN  /\ heap = n.heap
              /\ step = [Request |-> req, Headers |-> h.val, Query |-> q.val,
                         PathParams |-> p.val, Body |-> b.val,
                         Delay |-> dl, SaveToContext |-> s.val,
                         NextSteps |-> n.val]

CallApplyToStep ==
    /\ op = "none"
    /\ \E orderH \in RangeOrders(KeysOf(heap, step.Headers)),
          orderQ \in RangeOrders(KeysOf(heap, step.Query)),
          orderP \in RangeOrders(KeysOf(heap, step.PathParams)) :
          LET r == ApplyToStep(heap, step, VarsAddr, orderH, orderQ, orderP)
          IN  /\ heap' = r.heap
              /\ ret' = [val |-> r.val, err |-> r.err]
    /\ op' = "ApplyToStep"
    /\ UNCHANGED <<template, vars, step, scenario, callers, args, doc>>

CallApplyToHeaders ==
    /\ op = "none"
    /\ \E order \in RangeOrders(KeysOf(heap, step.Headers)) :
          LET r == ApplyToHeaders(heap, step.Headers, VarsAddr, order)
          IN  /\ heap' = r.heap
              /\ ret' = [val |-> r.val, err |-> r.err]
    /\ op' = "ApplyToHeaders"
    /\ UNCHANGED <<template, vars, step, scenario, callers, args, doc>>

CallApplyToQuery ==
    /\ op = "none"
    /\ \E order \in RangeOrders(KeysOf(heap, step.Query)) :
          LET r == ApplyToQuery(heap, step.Query, VarsAddr, order)
          IN  /\ heap' = r.heap
              /\ ret' = [val |-> r.val, err |-> r.err]
    /\ op' = "ApplyToQuery"
    /\ UNCHANGED <<template, vars, step, scenario, callers, args, doc>>

CallApplyToBody ==
    /\ op = "none"
    /\ LET r == ApplyToBody(heap, step.Body, VarsAddr)
       IN  /\ heap' = r.heap
           /\ ret' = [val |-> r.val, err |-> r.err]
    /\ op' = "ApplyToBody"
    /\ UNCHANGED <<template, vars, step, scenario, callers, args, doc>>

\* ApplyToURL on the request string of the Step.
CallApplyToURLOfRequest ==
    /\ op = "none"
    /\ ret' = ApplyToURL(step.Request, heap[VarsAddr])
    /\ op' = "ApplyToURL"
    /\ UNCHANGED <<template, vars, heap, step, scenario, callers, args, doc>>

StepNext ==
    \/ CallApplyToStep
    \/ CallApplyToHeaders
    \/ CallApplyToQuery
    \/ CallApplyToBody
    \/ CallApplyToURLOfRequest

SpecStep == StepInit /\ [][StepNext]_allVars

----------------------------------------------------------------------------
(* Specification of ApplyToBody alone: one call on a body and a context    *)
(* drawn from pools that hold nested bodies, numbers beyond 2^53 and       *)
(* values made of the characters JSON escapes.                             *)

BigInt == <<"9", "0", "0", "7", "1", "9", "9", "2", "5", "4", "7", "4", "0", "9", "9", "3">>

BodyValPool ==
    { <<>>, <<"x">>, <<"\"">>, <<"\\">>, <<"LF">>, <<"\\", "\"">>, <<"<">>,
      <<"$", "{", "b", "}">>, <<"\\", "\"", "LF">>,
      <<"\"", ",", "\"", "j", "\"", ":", "\"", "y">> }

BodyContexts ==
    UNION { [D -> BodyValPool] : D \in SUBSET {<<"a">>, <<"b">>} }
    \cup { (<<"<">> :> <<"x">>) }

BodyPool ==
    { GoNil,
      GoString(<<"t", "$", "{", "a", "}">>),
      GoString(<<"{", "\"", "k", "\"", ":", "\"", "$", "{", "a", "}", "\"", "}">>),
      GoString(<<"$", "{", "a", "}", "$", "{", "c", "}">>),
      GoMap(<<"k">> :> GoString(<<"$", "{", "a", "}">>)),
      GoMap(<<"k">> :> GoString(<<"$", "{", "a", "}">>) @@ <<"n">> :> GoNumber("int64", BigInt)),
      GoMap(<<"k">> :> GoString(<<"p", "$", "{", "a", "}", "-", "$", "{", "b", "}">>) @@ <<"j">> :> GoString(<<"u", "<", "\"">>)),
      GoMap(<<"k">> :> GoString(<<"x">>) @@ <<"n">> :> GoNumber("int", <<"4", "2">>)),
      GoMap(<<"n">> :> GoNumber("int64", BigInt)),
      GoList(<<GoString(<<"$", "{", "a", "}">>), GoMap(<<"m">> :> GoString(<<"$", "{", "b", "}">>)),
               GoNumber("int", <<"7">>)>>),
      GoMap(<<"o">> :> GoMap(<<"k">> :> GoString(<<"$", "{", "a", "}">>)
                         @@ <<"l">> :> GoList(<<GoString(<<"z">>)>>))
            @@ <<"j">> :> GoString(<<"y">>)),
      GoMap(<<"k">> :> GoString(<<"$", "{", "c", "}">>)),
      GoMap(<<"k">> :> GoString(<<"$", "{", "a", "}">>) @@ <<"l">> :> GoString(<<"$", "{">>)),
      GoMap(<<"k">> :> GoString(<<"$", "{", "<", "}">>)),
      GoMap(<<"k">> :> GoString(<<"$", "{", "}">>)) }

BodyInit ==
    /\ op = "none"
    /\ template = <<>>
    /\ vars = EmptyStrMap
    /\ ret = NoRet
    /\ doc = <<>>
    /\ scenario = <<>>
    /\ callers = <<>>
    /\ args = <<>>
    /\ \E ctx \in BodyContexts, bd \in BodyPool :
          LET b == PlaceBody(<<ctx>>, bd)
          IN  /\ heap = b.heap
              /\ step = [ZeroStep EXCEPT !.Body = b.val]

BodyNext == CallApplyToBody

SpecBody == BodyInit /\ [][BodyNext]_allVars

----------------------------------------------------------------------------
(* Specification of the Parser: NewParser, then ParseData on a document,   *)
(* then any calls of Validate and GetScenario.  A document is either       *)
(* malformed or decodes to a Scenario drawn from the pools; a parser      *)
(* decodes one document, and may be given malformed ones at any time.      *)

MaxSteps == 3

\* A Step as decoded from a document; its maps play no part in Validate.
DecodedStep(request, body, delay, nextSteps) ==
    [Request |-> request, Headers |-> NilMap, Query |-> NilMap,
     PathParams |-> NilMap, Body |-> body, Delay |-> delay,
     SaveToContext |-> NilMap, NextSteps |-> nextSteps]

DecodedNextStep(request, statusCodes, map) ==
    [Request |-> request, StatusCodes |-> statusCodes, Map |-> map]

GetA == <<"G", "E", "T", " ", "/", "a">>
PostB == <<"P", "O", "S", "T", " ", "/", "b">>
DeleteC == <<"D", "E", "L", "E", "T", "E", " ", "/", "c">>
SomeBody == GoString(<<"x">>)
GoodMap ==
    (<<"r", "e", "s", "p", "o", "n", "s", "e", ".", "i", "d">> :>
        <<"v", "a", "r", "i", "a", "b", "l", "e", "s", ".", "i", "d">>)
BadMap ==
    (<<"t", "o", "k", "e", "n", ".", "i", "d">> :> <<"v", "a", "r", "i", "a", "b", "l", "e", "s", ".", "i", "d">>) @@
    (<<"b", "o", "d", "y", ".", "i", "d">> :> <<"r", "e", "s", "p", "o", "n", "s", "e", ".", "i", "d">>)

StepPool ==
    { DecodedStep(GetA, GoNil, ZeroDuration, <<>>),
      DecodedStep(PostB, SomeBody, Dur(600, 0),
                  <<DecodedNextStep(GetA, <<<<"2", "0", "0">>, <<"2", "x", "x">>>>, GoodMap)>>),
      DecodedStep(GetA, GoNil, ZeroDuration,
                  <<DecodedNextStep(PostB, <<<<"4", "0", "4">>>>, EmptyStrMap)>>),
      DecodedStep(PostB, GoNil, Dur(1, 500000000),
                  <<DecodedNextStep(PostB, <<<<"5", "x", "x">>>>, EmptyStrMap)>>),
      DecodedStep(DeleteC, SomeBody, ZeroDuration,
                  <<DecodedNextStep(GetA, <<<<"2", "0", "0">>>>, EmptyStrMap),
                    DecodedNextStep(PostB, <<<<"2", "0", "1">>>>, EmptyStrMap)>>),
      DecodedStep(<<>>, GoNil, ZeroDuration, <<>>),
      DecodedStep(<<"G", "E", "T", "/", "a">>, GoNil, ZeroDuration, <<>>),
      DecodedStep(<<"F", "E", "T", "C", "H", " ", "/", "a">>, GoNil, ZeroDuration, <<>>),
      DecodedStep(<<"P", "U", "T", " ", "a">>, GoNil, ZeroDuration, <<>>),
      DecodedStep(GetA, SomeBody, ZeroDuration, <<>>),
      DecodedStep(<<"H", "E", "A", "D", " ", "/", "h">>, SomeBody, ZeroDuration, <<>>),
      DecodedStep(PostB, GoNil, Dur(-1, 999999999), <<>>),
      DecodedStep(PostB, SomeBody, Dur(600, 1), <<>>),
      DecodedStep(GetA, GoNil, ZeroDuration,
                  <<DecodedNextStep(<<>>, <<<<"2", "0", "0">>>>, EmptyStrMap)>>),
      DecodedStep(GetA, GoNil, ZeroDuration,
                  <<DecodedNextStep(<<"P", "O", "S", "T", " ", "b">>, <<<<"2", "0", "0">>>>, EmptyStrMap)>>),
      DecodedStep(PostB, GoNil, ZeroDuration,
                  <<DecodedNextStep(<<"P", "A", "T", "C", "H", " ", "/", "p">>, <<<<"2", "0", "0">>>>, EmptyStrMap)>>),
      DecodedStep(GetA, GoNil, ZeroDuration,
                  <<DecodedNextStep(GetA, <<<<"2", "0", "0">>, <<"6", "x", "x">>>>, EmptyStrMap)>>),
      DecodedStep(PostB, GoNil, ZeroDuration,
                  <<DecodedNextStep(PostB, <<<<"2", "x", "x">>>>, BadMap)>>) }

\* The scenario-level fields: Name, BaseURL, VirtualUsers, Duration.
ValidHeader == <<<<"n">>, <<"h", "t", "t", "p", ":", "/", "/", "h">>, 1, 1>>

EdgeHeaderPool ==
    { <<<<"n">>, <<"h", "t", "t", "p", ":", "/", "/", "h">>, 3, MaxDurationSeconds>>,
      <<<<>>, <<"h", "t", "t", "p", ":", "/", "/", "h">>, 1, 1>>,
      <<<<"n">>, <<>>, 1, 1>>,
      <<<<"n">>, <<"h", "t", "t", "p", ":", "/", "/", "h">>, 0, 1>>,
      <<<<"n">>, <<"h", "t", "t", "p", ":", "/", "/", "h">>, 1, 0>>,
      <<<<"n">>, <<"h", "t", "t", "p", ":", "/", "/", "h">>, 1, MaxDurationSeconds + 1>> }

DecodedScenario(hd, steps) ==
    [Name |-> hd[1], BaseURL |-> hd[2], VirtualUsers |-> hd[3],
     Duration |-> hd[4], Variables |-> NilMap, Steps |-> steps]

\* Every sequence of steps under ValidHeader, and at most one step under
\* the other scenario-level fields.
Scenarios ==
    { DecodedScenario(ValidHeader, steps) :
          steps \in SeqsUpTo(StepPool, MaxSteps) }
    \cup
    { DecodedScenario(hd, steps) :
          hd \in EdgeHeaderPool, steps \in SeqsUpTo(StepPool, 1) }

\* The keys of every next-step map of the scenario p.scenario points to.
MappingKeys(ptr) ==
    IF ptr = <<>> THEN {}
    ELSE UNION { UNION { DOMAIN ptr[1].Steps[i].NextSteps[j].Map :
                            j \in 1..Len(ptr[1].Steps[i].NextSteps) } :
                    i \in 1..Len(ptr[1].Steps) }

\* NewParser
ValInit ==
    /\ op = "none"
    /\ template = <<>>
    /\ vars = EmptyStrMap
    /\ ret = NoRet
    /\ doc = <<>>
    /\ heap = <<>>
    /\ step = ZeroStep
    /\ scenario = <<>>
    /\ callers = <<>>
    /\ args = <<>>

\* ParseData on a document that yaml.Unmarshal decodes.
CallParseData ==
    /\ scenario = <<>>
    /\ \E sc \in Scenarios : scenario' = <<sc>>
    /\ ret' = [val |-> <<>>, err |-> NilErr]
    /\ op' = "ParseData"
    /\ UNCHANGED <<template, vars, heap, step, callers, args, doc>>

\* A ParseData that stores the Scenario it was decoding into when
\* yaml.Unmarshal refused the document.
CallParseDataMalformedStoresPartial ==
    /\ scenario' = <<DecodedScenario(<<<<>>, <<>>, 0, 0>>, <<>>)>>
    /\ ret' = [val |-> <<>>,
               err |-> Wrap("failed to parse YAML", NoArg,
                            Errorf("yaml", NoArg))]
    /\ op' = "ParseData"
    /\ UNCHANGED <<template, vars, heap, step, callers, args, doc>>

\* ParseData on a document that yaml.Unmarshal refuses, on a parser that
\* holds a scenario or none.
CallParseDataMalformed ==
    /\ ret' = [val |-> <<>>,
               err |-> Wrap("failed to parse YAML", NoArg,
                            Errorf("yaml", NoArg))]
    /\ op' = "ParseData"
    /\ UNCHANGED <<template, vars, heap, step, scenario, callers, args, doc>>

CallValidate ==
    /\ \E rank \in RangeOrders(MappingKeys(scenario)) :
          ret' = [val |-> <<>>, err |-> Validate(scenario, rank)]
    /\ op' = "Validate"
    /\ UNCHANGED <<template, vars, heap, step, scenario, callers, args, doc>>

CallGetScenario ==
    /\ ret' = IF scenario = <<>>
              THEN [val |-> <<>>, err |-> Errorf("no scenario loaded", NoArg)]
              ELSE [val |-> scenario, err |-> NilErr]
    /\ op' = "GetScenario"
    /\ UNCHANGED <<template, vars, heap, step, scenario, callers, args, doc>>

ValNext ==
    \/ CallParseData
    \/ CallParseDataMalformed
    \/ CallValidate
    \/ CallGetScenario

SpecVal == ValInit /\ [][ValNext]_allVars

----------------------------------------------------------------------------
(* Specification of one Parser shared by two goroutines without locking.   *)
(* Each runs its own sequence of calls; a step of the specification is one *)
(* access of a goroutine to p.scenario.  ParseData stores the pointer,     *)
(* GetScenario loads it, and Validate loads it once for the checks of the  *)
(* scenario-level fields and again for the loop over the steps.            *)

MaxCalls == 2

Goroutines == {1, 2}

ValidDoc == DecodedScenario(ValidHeader, <<DecodedStep(GetA, GoNil, ZeroDuration, <<>>)>>)

InvalidDoc == DecodedScenario(ValidHeader, <<DecodedStep(<<>>, GoNil, ZeroDuration, <<>>)>>)

Call(name, document) == [name |-> name, doc |-> document]

CallPool ==
    { Call("ParseData", <<ValidDoc>>), Call("ParseData", <<InvalidDoc>>),
      Call("Validate", <<>>), Call("GetScenario", <<>>) }

Programs == SeqsUpTo(CallPool, MaxCalls)

Returned(val, err) == [val |-> val, err |-> err]

GetScenario(ptr) ==
    IF ptr = <<>> THEN Returned(<<>>, Errorf("no scenario loaded", NoArg))
    ELSE Returned(ptr, NilErr)

\* The first call the goroutine has not returned from.
Pending(g) == g.calls[Len(g.returns) + 1]

Running(g) == Len(g.returns) < Len(g.calls)

Return(g, r) == [g EXCEPT !.returns = Append(@, r), !.inValidate = FALSE]

ConcInit ==
    /\ op = "none"
    /\ template = <<>>
    /\ vars = EmptyStrMap
    /\ ret = NoRet
    /\ doc = <<>>
    /\ heap = <<>>
    /\ step = ZeroStep
    /\ scenario = <<>>
    /\ args = <<>>
    /\ callers \in [Goroutines ->
                      { [calls |-> prog, returns |-> <<>>, inValidate |-> FALSE] :
                            prog \in Programs }]

\* p.scenario = &scenario
ConcParseData(c) ==
    /\ Running(callers[c]) /\ Pending(callers[c]).name = "ParseData"
    /\ scenario' = Pending(callers[c]).doc
    /\ callers' = [callers EXCEPT ![c] = Return(@, Returned(<<>>, NilErr))]
    /\ UNCHANGED <<op, template, vars, ret, heap, step, args, doc>>

ConcGetScenario(c) ==
    /\ Running(callers[c]) /\ Pending(callers[c]).name = "GetScenario"
    /\ callers' = [callers EXCEPT ![c] = Return(@, GetScenario(scenario))]
    /\ UNCHANGED <<op, template, vars, ret, heap, step, scenario, args, doc>>

\* Validate up to the loop over the steps.
ConcValidateFields(c) ==
    /\ Running(callers[c]) /\ Pending(callers[c]).name = "Validate"
    /\ ~callers[c].inValidate
    /\ LET err == ValidateFields(scenario)
       IN  callers' = [callers EXCEPT ![c] =
                          IF err # NilErr THEN Return(@, Returned(<<>>, err))
                          ELSE [@ EXCEPT !.inValidate = TRUE]]
    /\ UNCHANGED <<op, template, vars, ret, heap, step, scenario, args, doc>>

\* The loop of Validate over the steps of the scenario p.scenario points to
\* by then.
ConcValidateSteps(c) ==
    /\ Running(callers[c]) /\ callers[c].inValidate
    /\ \E rank \in RangeOrders(MappingKeys(scenario)) :
          callers' = [callers EXCEPT ![c] =
                         Return(@, Returned(<<>>,
                                   ValidateSteps(scenario[1], 1, {}, rank)))]
    /\ UNCHANGED <<op, template, vars, ret, heap, step, scenario, args, doc>>

ConcNext ==
    \E c \in Goroutines :
        \/ ConcParseData(c)
        \/ ConcGetScenario(c)
        \/ ConcValidateFields(c)
        \/ ConcValidateSteps(c)

SpecConc == ConcInit /\ [][ConcNext]_allVars

----------------------------------------------------------------------------
(* Specifications of the validation helpers: one call of                   *)
(* validateStatusCode, of validateMapping or of parseRequest on strings    *)
(* drawn from the pools.                                                   *)

MaxCodeLen == 4

CodeChars == {"0", "1", "2", "5", "6", "9", "x", "+", "-", "a"}

HelperInit(pool) ==
    /\ op = "none"
    /\ template = <<>>
    /\ vars = EmptyStrMap
    /\ ret = NoRet
    /\ doc = <<>>
    /\ heap = <<>>
    /\ step = ZeroStep
    /\ scenario = <<>>
    /\ callers = <<>>
    /\ args \in pool

StatusInit == HelperInit({ <<code>> : code \in SeqsUpTo(CodeChars, MaxCodeLen) })

CallValidateStatusCode ==
    /\ op = "none"
    /\ ret' = [val |-> <<>>, err |-> validateStatusCode(args[1])]
    /\ op' = "validateStatusCode"
    /\ UNCHANGED <<template, vars, heap, step, scenario, callers, args, doc>>

StatusNext == CallValidateStatusCode

SpecStatus == StatusInit /\ [][StatusNext]_allVars

PrefixPool ==
    { <<"r", "e", "s", "p", "o", "n", "s", "e">>, <<"h", "e", "a", "d", "e", "r", "s">>, <<"q", "u", "e", "r", "y">>, <<"p", "a", "t", "h", "_", "p", "a", "r", "a", "m", "s">>, <<"b", "o", "d", "y">>, <<"c", "o", "o", "k", "i", "e", "s">>,
      <<"v", "a", "r", "i", "a", "b", "l", "e", "s">>, <<"f", "o", "o">>, <<"R", "e", "s", "p", "o", "n", "s", "e">>, <<>>, <<"r", "e", "s", "p">>, <<"x", ".", "r", "e", "s", "p", "o", "n", "s", "e">> }

TailPool == { <<>>, <<".">>, <<".", "x">>, <<".", "a", ".", "b">> }

SidePool == { pre \o tail : pre \in PrefixPool, tail \in TailPool }

MappingInit ==
    HelperInit({ <<source, target>> : source \in SidePool, target \in SidePool })

CallValidateMapping ==
    /\ op = "none"
    /\ ret' = [val |-> <<>>, err |-> validateMapping(args[1], args[2])]
    /\ op' = "validateMapping"
    /\ UNCHANGED <<template, vars, heap, step, scenario, callers, args, doc>>

MappingNext == CallValidateMapping

SpecMapping == MappingInit /\ [][MappingNext]_allVars

MaxRequestParts == 3

RequestSegPool ==
    { <<"G", "E", "T">>, <<"P", "O", "S", "T">>, <<"P", "U", "T">>, <<"P", "A", "T", "C", "H">>, <<"D", "E", "L", "E", "T", "E">>, <<"H", "E", "A", "D">>, <<"g", "e", "t">>, <<"T", "R", "A", "C", "E">>,
      <<" ">>, <<"/", "a">>, <<"a">>, <<" ", "/", "a">> }

RequestInit ==
    HelperInit({ <<Flatten(parts)>> :
                    parts \in SeqsUpTo(RequestSegPool, MaxRequestParts) })

CallParseRequest ==
    /\ op = "none"
    /\ LET r == parseRequest(args[1])
       IN  ret' = [val |-> [method |-> r.method, path |-> r.path],
                   err |-> r.err]
    /\ op' = "parseRequest"
    /\ UNCHANGED <<template, vars, heap, step, scenario, callers, args, doc>>

RequestNext == CallParseRequest

SpecRequest == RequestInit /\ [][RequestNext]_allVars

----------------------------------------------------------------------------
(* Decoding of a delay: Duration.UnmarshalYAML on the YAML node of the      *)
(* delay field.  A node is a scalar, with its text and whether it was      *)
(* quoted, or a mapping or a sequence.  The texts are over digits, signs    *)
(* and letters; fractions are not among them.                              *)

MaxDelayGroups == 2

ScalarNode(text, quoted) == [kind |-> "scalar", text |-> text, quoted |-> quoted]

MappingNode == [kind |-> "mapping"]

SequenceNode == [kind |-> "sequence"]

\* The tag yaml.v3 resolves a scalar to: a plain scalar that reads as a
\* decimal integer is an !!int, every other one here a !!str.
ResolveTag(node) ==
    IF ~node.quoted /\ Atoi(node.text).ok THEN "int" ELSE "str"

RECURSIVE DecimalValue(_, _)
DecimalValue(ds, acc) ==
    IF ds = <<>> THEN acc
    ELSE DecimalValue(Tail(ds), 10 * acc + DigitVal(Head(ds)))

\* time.Duration(ns) for ns below 2^31 in absolute value.
Nanoseconds(ns) == Dur(ns \div 1000000000, ns % 1000000000)

DurAdd(a, b) ==
    LET nsec == a.nsec + b.nsec
    IN  IF nsec >= 1000000000
        THEN Dur(a.sec + b.sec + 1, nsec - 1000000000)
        ELSE Dur(a.sec + b.sec, nsec)

DurNeg(a) ==
    IF a.nsec = 0 THEN Dur(0 - a.sec, 0)
    ELSE Dur(0 - a.sec - 1, 1000000000 - a.nsec)

\* unitMap of package time, without the two spellings of the microsecond
\* that use a non-ASCII letter.
DurationUnits == { <<"n", "s">>, <<"u", "s">>, <<"m", "s">>, <<"s">>, <<"m">>, <<"h">> }

\* v units as a Duration.
UnitDur(v, unit) ==
    CASE unit = <<"n", "s">> -> Dur(v \div 1000000000, v % 1000000000)
      [] unit = <<"u", "s">> -> Dur(v \div 1000000, (v % 1000000) * 1000)
      [] unit = <<"m", "s">> -> Dur(v \div 1000, (v % 1000) * 1000000)
      [] unit = <<"s">>  -> Dur(v, 0)
      [] unit = <<"m">>  -> Dur(60 * v, 0)
      [] unit = <<"h">>  -> Dur(3600 * v, 0)

\* How many characters at the head of str satisfy: digit, or not digit.
RECURSIVE LeadingDigits(_)
LeadingDigits(str) ==
    IF str = <<>> \/ ~IsDigit(Head(str)) THEN 0
    ELSE 1 + LeadingDigits(Tail(str))

RECURSIVE LeadingNonDigits(_)
LeadingNonDigits(str) ==
    IF str = <<>> \/ IsDigit(Head(str)) THEN 0
    ELSE 1 + LeadingNonDigits(Tail(str))

\* The loop of time.ParseDuration over the groups of digits and unit.
RECURSIVE ParseGroups(_, _)
ParseGroups(str, acc) ==
    IF str = <<>> THEN [ok |-> TRUE, d |-> acc]
    ELSE LET nd   == LeadingDigits(str)
             rest == SubSeq(str, nd + 1, Len(str))
             nu   == LeadingNonDigits(rest)
             unit == SubSeq(rest, 1, nu)
         IN  IF nd = 0 \/ nu = 0 \/ unit \notin DurationUnits
             THEN [ok |-> FALSE, d |-> ZeroDuration]
             ELSE ParseGroups(SubSeq(rest, nu + 1, Len(rest)),
                              DurAdd(acc, UnitDur(DecimalValue(SubSeq(str, 1, nd), 0),
                                                  unit)))

\* time.ParseDuration: [-+]?([0-9]+[a-z]+)+, or "0" after the sign.
ParseDuration(str) ==
    LET signed == str # <<>> /\ str[1] \in {"-", "+"}
        body   == IF signed THEN Tail(str) ELSE str
    IN  IF body = <<"0">> THEN [ok |-> TRUE, d |-> ZeroDuration]
        ELSE IF body = <<>> THEN [ok |-> FALSE, d |-> ZeroDuration]
        ELSE LET r == ParseGroups(body, ZeroDuration)
             IN  IF r.ok /\ signed /\ str[1] = "-"
                 THEN [ok |-> TRUE, d |-> DurNeg(r.d)]
                 ELSE r

\* unmarshal(&raw) with raw a string: yaml.v3 gives a string the text of
\* any scalar, whatever its tag, and refuses a mapping and a sequence.
UnmarshalString(node) ==
    IF node.kind = "scalar" THEN [ok |-> TRUE, raw |-> node.text]
    ELSE [ok |-> FALSE, raw |-> <<>>]

\* unmarshal(&ns) with ns an int64: only an !!int scalar decodes.
UnmarshalInt64(node) ==
    IF node.kind = "scalar" /\ ResolveTag(node) = "int"
    THEN [ok |-> TRUE,
          ns |-> IF node.text[1] = "-"
                 THEN 0 - DecimalValue(Tail(node.text), 0)
                 ELSE IF node.text[1] = "+"
                 THEN DecimalValue(Tail(node.text), 0)
                 ELSE DecimalValue(node.text, 0)]
    ELSE [ok |-> FALSE, ns |-> 0]

\* Duration.UnmarshalYAML on a Duration that is zero before the call: the
\* Duration after it, and the error.
UnmarshalYAML(node) ==
    LET asStr == UnmarshalString(node)
    IN  IF ~asStr.ok
        THEN LET asInt == UnmarshalInt64(node)
             IN  IF ~asInt.ok
                 THEN Returns(<<>>, ZeroDuration,
                              Errorf("delay must be a duration string", NoArg))
                 ELSE Returns(<<>>, Nanoseconds(asInt.ns), NilErr)
        ELSE IF asStr.raw = <<>> THEN Returns(<<>>, ZeroDuration, NilErr)
        ELSE LET parsed == ParseDuration(asStr.raw)
             IN  IF ~parsed.ok
                 THEN Returns(<<>>, ZeroDuration,
                              Errorf("invalid delay", asStr.raw))
                 ELSE Returns(<<>>, parsed.d, NilErr)

DelayNumPool == { <<"0">>, <<"2">>, <<"5", "0", "0">> }

DelayUnitPool == DurationUnits \cup { <<"x">> }

DelayGroupPool == { n \o u : n \in DelayNumPool, u \in DelayUnitPool }

\* Integer counts of nanoseconds.
DelayIntTexts ==
    { <<"0">>, <<"2">>, <<"5", "0", "0", "0", "0", "0", "0", "0", "0">>, <<"1", "5", "0", "0", "0", "0", "0", "0", "0", "0">>, <<"2", "0", "0", "0", "0", "0", "0", "0", "0", "0">> }

\* Duration literals of up to MaxDelayGroups groups with or without a sign,
\* the integer counts, and texts that are neither.
DelayTexts ==
    { sign \o Flatten(groups) :
          sign \in { <<>>, <<"-">>, <<"+">> },
          groups \in SeqsUpTo(DelayGroupPool, MaxDelayGroups) }
    \cup DelayIntTexts
    \cup { <<"s">>, <<"2", "s", "2">>, <<"-", "2">> }

DelayNodes ==
    { ScalarNode(text, quoted) : text \in DelayTexts, quoted \in BOOLEAN }
    \cup { MappingNode, SequenceNode }

DelayInit == HelperInit({ <<node>> : node \in DelayNodes })

CallUnmarshalYAML ==
    /\ op = "none"
    /\ LET r == UnmarshalYAML(args[1])
       IN  ret' = [val |-> r.val, err |-> r.err]
    /\ op' = "UnmarshalYAML"
    /\ UNCHANGED <<template, vars, heap, step, scenario, callers, args, doc>>

DelayNext == CallUnmarshalYAML

SpecDelay == DelayInit /\ [][DelayNext]_allVars

----------------------------------------------------------------------------
(* The Extractor.  The JSON data is <<>> when it has no bytes, else <<v>>   *)
(* with v the value the document denotes, its numbers float64.  A path is   *)
(* the sequence of its components, the empty path having none; the         *)
(* components are keys and indices, without gjson's modifiers and          *)
(* wildcards.                                                              *)

MaxPathLen == 2

NoData == <<>>

\* A gjson.Result: whether the path led to a value, and the value.
NoResult == [exists |-> FALSE, value |-> GoNil]

\* gjson.GetBytes: a key goes into an object, an index into an array.
RECURSIVE GetValue(_, _)
GetValue(v, path) ==
    IF path = <<>> THEN [exists |-> TRUE, value |-> v]
    ELSE LET seg == Head(path)
         IN  IF v.t = "map"
             THEN IF seg \in DOMAIN v.m THEN GetValue(v.m[seg], Tail(path))
                  ELSE NoResult
             ELSE IF v.t = "list"
             THEN IF Atoi(seg).ok /\ IsDigit(seg[1])
                     /\ Atoi(seg).n + 1 \in 1..Len(v.l)
                  THEN GetValue(v.l[Atoi(seg).n + 1], Tail(path))
                  ELSE NoResult
             ELSE NoResult

GetBytes(jsonData, path) == GetValue(jsonData[1], path)

Extract(jsonData, path) ==
    IF Len(jsonData) = 0
    THEN [val |-> GoNil, err |-> Errorf("json data cannot be empty", NoArg)]
    ELSE IF path = <<>>
    THEN [val |-> GoNil, err |-> Errorf("path cannot be empty", NoArg)]
    ELSE LET result == GetBytes(jsonData, path)
         IN  IF ~result.exists
             THEN [val |-> GoNil,
                   err |-> Errorf("path not found in JSON", path)]
             ELSE [val |-> result.value, err |-> NilErr]

\* An Exists that takes a JSON null for a missing value.
ExistsNotForNull(jsonData, path) ==
    IF Len(jsonData) = 0 \/ path = <<>> THEN FALSE
    ELSE LET result == GetBytes(jsonData, path)
         IN  result.exists /\ result.value # GoNil

Exists(jsonData, path) ==
    IF Len(jsonData) = 0 \/ path = <<>> THEN FALSE
    ELSE GetBytes(jsonData, path).exists

ExtractWithDefault(jsonData, path, defaultValue) ==
    LET r == Extract(jsonData, path)
    IN  IF r.err # NilErr THEN defaultValue ELSE r.val

UserDoc ==
    GoMap(<<"u", "s", "e", "r">> :> GoMap(<<"i", "d">> :> GoString(<<"u", "1">>)
                          @@ <<"e", "m", "a", "i", "l">> :> GoNil
                          @@ <<"a", "g", "e">> :> GoNumber("float64", <<"3", "0">>))
          @@ <<"u", "s", "e", "r", "s">> :> GoList(<<GoMap(<<"i", "d">> :> GoString(<<"u", "2">>)), GoNil>>)
          @@ <<"n", "o", "n", "e">> :> GoNil)

JSONDataPool ==
    { NoData, <<UserDoc>>, <<GoNil>>, <<GoString(<<"x">>)>>,
      <<GoList(<<GoString(<<"x">>), GoNil>>)>>, <<GoMap(EmptyStrMap)>> }

PathSegPool == { <<"u", "s", "e", "r">>, <<"u", "s", "e", "r", "s">>, <<"i", "d">>, <<"e", "m", "a", "i", "l">>, <<"n", "o", "n", "e">>, <<"0">>, <<"1">>, <<"2">> }

PathPool == SeqsUpTo(PathSegPool, MaxPathLen)

DefaultPool == { GoNil, GoString(<<"d">>), GoNumber("int", <<"0">>) }

ExtractInit ==
    HelperInit({ <<jsonData, path, d>> :
                    jsonData \in JSONDataPool, path \in PathPool,
                    d \in DefaultPool })

CallExtract ==
    /\ op = "none"
    /\ ret' = Extract(args[1], args[2])
    /\ op' = "Extract"
    /\ UNCHANGED <<template, vars, heap, step, scenario, callers, args, doc>>

CallExists ==
    /\ op = "none"
    /\ ret' = [val |-> Exists(args[1], args[2]), err |-> NilErr]
    /\ op' = "Exists"
    /\ UNCHANGED <<template, vars, heap, step, scenario, callers, args, doc>>

CallExtractWithDefault ==
    /\ op = "none"
    /\ ret' = [val |-> ExtractWithDefault(args[1], args[2], args[3]),
               err |-> NilErr]
    /\ op' = "ExtractWithDefault"
    /\ UNCHANGED <<template, vars, heap, step, scenario, callers, args, doc>>

ExtractNext ==
    \/ CallExtract
    \/ CallExists
    \/ CallExtractWithDefault

SpecExtract == ExtractInit /\ [][ExtractNext]_allVars

----------------------------------------------------------------------------
(* The OpenAPI Parser: New, then any calls of ParseData, ParseFile and the  *)
(* getters.  A document is what the loader makes of the data: nothing when  *)
(* it cannot load them, else an openapi3.T that doc.Validate accepts or     *)
(* refuses.  Names, paths and URLs are compared only, and written as        *)
(* strings.                                                                *)

Operation(tags) == [Tags |-> tags]

\* An openapi3.T: Paths and Servers are <<>> when nil, else <<value>>.
T(info, tags, servers, paths) ==
    [Info |-> info, Tags |-> tags, Servers |-> servers, Paths |-> paths]

NoOperations == [method \in {} |-> Operation(<<>>)]

NoPaths == [path \in {} |-> NoOperations]

DocPool ==
    { T("A", <<>>, <<>>, <<>>),
      T("B", <<"t", "">>, <<<<>>>>, <<NoPaths>>),
      T("C", <<"t">>, <<<<"http://s">>>>,
        <<("/p" :> ("GET" :> Operation(<<"t", "u">>)
                    @@ "POST" :> Operation(<<>>)))>>),
      T("D", <<>>, <<<<"http://s", "http://r">>>>,
        <<("/p" :> ("GET" :> Operation(<<"u">>))
           @@ "/q" :> ("TRACE" :> Operation(<<"u">>)))>>),
      T("E", <<"v">>, <<>>,
        <<("/p" :> ("GET" :> Operation(<<"v">>)
                    @@ "PUT" :> Operation(<<"t">>)
                    @@ "DELETE" :> Operation(<<>>)))>>) }

\* What a call is given: data the loader refuses, or data of a document
\* with what doc.Validate says of it.
Unloadable == [loads |-> FALSE]

Loadable(t, valid) == [loads |-> TRUE, doc |-> t, valid |-> valid]

DataPool ==
    { Unloadable }
    \cup { Loadable(t, valid) : t \in DocPool, valid \in BOOLEAN }

\* A file that cannot be read, or a file with its data.
Unreadable == [reads |-> FALSE]

Readable(data) == [reads |-> TRUE, data |-> data]

FilePool == { Unreadable } \cup { Readable(data) : data \in DataPool }

TagPool == { "t", "u", "v" }

\* The sequences that hold each element of S once: the orders a range over
\* a map, or over a set built by one, can give.
Orders(S) ==
    { f \in [1..Cardinality(S) -> S] :
         \A i, j \in 1..Cardinality(S) : i # j => f[i] # f[j] }

\* The endpoints of the document, one for each operation of each path.
EndpointsOf(t) ==
    IF t.Paths = <<>> THEN {}
    ELSE UNION { { [Path |-> path, Method |-> method,
                    Tags |-> t.Paths[1][path][method].Tags] :
                      method \in DOMAIN t.Paths[1][path] } :
                 path \in DOMAIN t.Paths[1] }

\* What GetEndpoints can return: the endpoints in some order (a slice
\* without elements is <<>>, nil or not).
GetEndpoints(ptr) ==
    IF ptr = <<>>
    THEN { [val |-> <<>>, err |-> Errorf("no document loaded", NoArg)] }
    ELSE { [val |-> order, err |-> NilErr] :
              order \in Orders(EndpointsOf(ptr[1])) }

Elements(seq) == { seq[i] : i \in 1..Len(seq) }

Filter(seq, tag) == SelectSeq(seq, LAMBDA e : tag \in Elements(e.Tags))

GetEndpointsByTag(ptr, tag) ==
    { IF r.err # NilErr THEN r
      ELSE [val |-> Filter(r.val, tag), err |-> NilErr] :
         r \in GetEndpoints(ptr) }

TagSet(t) ==
    (Elements(t.Tags) \ {""})
    \cup UNION { Elements(e.Tags) : e \in EndpointsOf(t) }

GetTags(ptr) ==
    IF ptr = <<>>
    THEN { [val |-> <<>>, err |-> Errorf("no document loaded", NoArg)] }
    ELSE { [val |-> order, err |-> NilErr] : order \in Orders(TagSet(ptr[1])) }

GetInfo(ptr) ==
    IF ptr = <<>>
    THEN [val |-> <<>>, err |-> Errorf("no document loaded", NoArg)]
    ELSE [val |-> ptr[1].Info, err |-> NilErr]

GetServerURLs(ptr) ==
    IF ptr = <<>>
    THEN [val |-> <<>>, err |-> Errorf("no document loaded", NoArg)]
    ELSE IF ptr[1].Servers = <<>> THEN [val |-> <<>>, err |-> NilErr]
    ELSE [val |-> ptr[1].Servers[1], err |-> NilErr]

\* New
OpenAPIInit ==
    /\ op = "none"
    /\ template = <<>>
    /\ vars = EmptyStrMap
    /\ ret = [val |-> <<>>, err |-> NilErr]
    /\ heap = <<>>
    /\ step = ZeroStep
    /\ scenario = <<>>
    /\ callers = <<>>
    /\ args = <<>>
    /\ doc = <<>>

\* A load that stores the document before it validates it.
LoadAndStoreBeforeValidate(data) ==
    IF ~data.loads
    THEN /\ ret' = [val |-> <<>>,
                    err |-> Wrap("failed to parse OpenAPI spec", NoArg,
                                 Errorf("loader", NoArg))]
         /\ doc' = doc
    ELSE /\ doc' = <<data.doc>>
         /\ ret' = IF data.valid THEN [val |-> <<>>, err |-> NilErr]
                   ELSE [val |-> <<>>,
                         err |-> Wrap("invalid OpenAPI spec", NoArg,
                                      Errorf("validate", NoArg))]

\* The part ParseData and ParseFile share: load, validate, store.
LoadAndStore(data) ==
    IF ~data.loads
    THEN /\ ret' = [val |-> <<>>,
                    err |-> Wrap("failed to parse OpenAPI spec", NoArg,
                                 Errorf("loader", NoArg))]
         /\ doc' = doc
    ELSE IF ~data.valid
    THEN /\ ret' = [val |-> <<>>,
                    err |-> Wrap("invalid OpenAPI spec", NoArg,
                                 Errorf("validate", NoArg))]
         /\ doc' = doc
    ELSE /\ ret' = [val |-> <<>>, err |-> NilErr]
         /\ doc' = <<data.doc>>

OpenAPIParseData ==
    /\ \E data \in DataPool : LoadAndStore(data) /\ args' = <<data>>
    /\ op' = "ParseData"
    /\ UNCHANGED <<template, vars, heap, step, scenario, callers>>

OpenAPIParseFile ==
    /\ \E file \in FilePool :
          /\ args' = <<file>>
          /\ IF ~file.reads
             THEN /\ ret' = [val |-> <<>>,
                             err |-> Wrap("failed to read file", NoArg,
                                          Errorf("os", NoArg))]
                  /\ doc' = doc
             ELSE LoadAndStore(file.data)
    /\ op' = "ParseFile"
    /\ UNCHANGED <<template, vars, heap, step, scenario, callers>>

OpenAPIGetEndpoints ==
    /\ ret' \in GetEndpoints(doc)
    /\ args' = <<>>
    /\ op' = "GetEndpoints"
    /\ UNCHANGED <<template, vars, heap, step, scenario, callers, doc>>

OpenAPIGetEndpointsByTag ==
    /\ \E tag \in TagPool :
          /\ ret' \in GetEndpointsByTag(doc, tag)
          /\ args' = <<tag>>
    /\ op' = "GetEndpointsByTag"
    /\ UNCHANGED <<template, vars, heap, step, scenario, callers, doc>>

OpenAPIGetTags ==
    /\ ret' \in GetTags(doc)
    /\ args' = <<>>
    /\ op' = "GetTags"
    /\ UNCHANGED <<template, vars, heap, step, scenario, callers, doc>>

OpenAPIGetInfo ==
    /\ ret' = GetInfo(doc)
    /\ args' = <<>>
    /\ op' = "GetInfo"
    /\ UNCHANGED <<template, vars, heap, step, scenario, callers, doc>>

OpenAPIGetServerURLs ==
    /\ ret' = GetServerURLs(doc)
    /\ args' = <<>>
    /\ op' = "GetServerURLs"
    /\ UNCHANGED <<template, vars, heap, step, scenario, callers, doc>>

OpenAPINext ==
    \/ OpenAPIParseData
    \/ OpenAPIParseFile
    \/ OpenAPIGetEndpoints
    \/ OpenAPIGetEndpointsByTag
    \/ OpenAPIGetTags
    \/ OpenAPIGetInfo
    \/ OpenAPIGetServerURLs

SpecOpenAPI == OpenAPIInit /\ [][OpenAPINext]_allVars

----------------------------------------------------------------------------
(* Placeholders of a template, stated on the text alone                    *)

\* s[i..j] is a `${name}` span: "${", a non-empty name free of "}", "}".
IsPlaceholderSpan(s, i, j) ==
    /\ 1 <= i /\ i + 3 <= j /\ j <= Len(s)
    /\ s[i] = "$" /\ s[i + 1] = "{" /\ s[j] = "}"
    /\ \A k \in (i + 2)..(j - 1) : s[k] # "}"

\* Where a `${` starts in s.
Openers(s) ==
    { i \in 1..(Len(s) - 3) : s[i] = "$" /\ s[i + 1] = "{" }

Spans(s) ==
    UNION { { <<i, j>> : j \in { k \in (i + 3)..Len(s) :
                                    IsPlaceholderSpan(s, i, k) } } :
            i \in Openers(s) }

NotInsideEarlier(all) ==
    { sp \in all : ~ \E o \in all : o[1] < sp[1] /\ sp[1] <= o[2] }

\* The placeholders of s: the spans that do not start inside an earlier one.
Placeholders(s) == NotInsideEarlier(Spans(s))

NameOf(s, sp) == SubSeq(s, sp[1] + 2, sp[2] - 1)

PlaceholderNames(s) == { NameOf(s, sp) : sp \in Placeholders(s) }

Unresolved(s, vs) == { sp \in Placeholders(s) : NameOf(s, sp) \notin DOMAIN vs }

Leftmost(U) == CHOOSE sp \in U : \A other \in U : sp[1] <= other[1]

\* The unresolved placeholder that starts first.
LeftmostUnresolved(s, vs) == Leftmost(Unresolved(s, vs))

\* What position p of s contributes to the substituted text, P being the
\* placeholders of s.
PieceAt(s, vs, P, p) ==
    IF \E sp \in P : sp[1] = p
    THEN vs[NameOf(s, CHOOSE sp \in P : sp[1] = p)]
    ELSE IF \E sp \in P : sp[1] < p /\ p <= sp[2]
         THEN <<>>
         ELSE <<s[p]>>

RECURSIVE PiecesFrom(_, _, _, _)
PiecesFrom(s, vs, P, p) ==
    IF p > Len(s) THEN <<>>
    ELSE PieceAt(s, vs, P, p) \o PiecesFrom(s, vs, P, p + 1)

\* s with every placeholder replaced by its value and the rest kept.
Replaced(s, vs) ==
    LET P == Placeholders(s) IN PiecesFrom(s, vs, P, 1)

----------------
(* Claims on substitute and ApplyToURL                                     *)

StringCallDone == op \in {"substitute", "ApplyToURL"}

\* C1: when every placeholder name of the template has an entry in the
\* context, substitute and ApplyToURL succeed and return the template with
\* each `${name}` span replaced by context[name] verbatim and every other
\* character kept in order; a template without placeholders comes back
\* unchanged whatever the context.
C1_SubstituteReplacesEveryPlaceholder ==
    (StringCallDone /\ Unresolved(template, vars) = {}) =>
        /\ ret.err = NilErr
        /\ ret.val = Replaced(template, vars)
        /\ (Placeholders(template) = {} => ret.val = template)

\* Two resolved placeholders with different values around literal text.
C1_Witness ==
    /\ op = "ApplyToURL"
    /\ Cardinality(Placeholders(template)) = 2
    /\ Cardinality(PlaceholderNames(template)) = 2
    /\ Unresolved(template, vars) = {}
    /\ vars[<<"a">>] # vars[<<"b">>]
    /\ \E p \in 1..Len(template) :
          /\ template[p] = "a"
          /\ \A sp \in Placeholders(template) : p < sp[1] \/ sp[2] < p
    /\ ret.err = NilErr
    /\ ret.val # template

\* C2: when some placeholder has no entry in the context, the call fails
\* with an "undefined variable" error naming the leftmost unresolved
\* placeholder, whatever resolves before or after it, and returns no text.
C2_ErrorNamesLeftmostUnresolved ==
    (StringCallDone /\ Unresolved(template, vars) # {}) =>
        /\ ret.err # NilErr
        /\ Cause(ret.err) =
               [msg |-> "undefined variable",
                arg |-> NameOf(template, LeftmostUnresolved(template, vars))]
        /\ ret.val = <<>>

\* A resolved placeholder, then an unresolved one, then another unresolved
\* one of a different name.
C2_Witness ==
    /\ op = "substitute"
    /\ Cardinality(Unresolved(template, vars)) = 2
    /\ \E sp \in Placeholders(template) :
          /\ NameOf(template, sp) \in DOMAIN vars
          /\ sp[1] < LeftmostUnresolved(template, vars)[1]
    /\ \E sp \in Unresolved(template, vars) :
          NameOf(template, sp) #
              NameOf(template, LeftmostUnresolved(template, vars))
    /\ ret.err # NilErr

----------------------------------------------------------------------------
(* Claims on ApplyToStep                                                   *)

\* The maps a Step refers to.
StepMaps(st) ==
    ({st.Headers, st.Query, st.PathParams, st.SaveToContext, st.NextSteps}
        \ {NilMap})
    \cup (IF st.Body.t = "ref" THEN {st.Body.addr} ELSE {})

\* The maps of a Step that ApplyToStep substitutes in.
SubstitutedMaps(st) ==
    ({st.Headers, st.Query, st.PathParams} \ {NilMap})
    \cup (IF st.Body.t = "ref" THEN {st.Body.addr} ELSE {})

\* The call leaves every cell that existed before it as it was: the maps of
\* the input Step, entry by entry, and the variable context.
InputUntouched ==
    /\ step' = step
    /\ Len(heap') >= Len(heap)
    /\ \A a \in 1..Len(heap) : heap'[a] = heap[a]

RECURSIVE StringsOf(_)
StringsOf(v) ==
    CASE v.t = "string" -> {v.s}
      [] v.t = "map"    ->
            DOMAIN v.m \cup UNION { StringsOf(v.m[k]) : k \in DOMAIN v.m }
      [] v.t = "list"   -> UNION { StringsOf(v.l[i]) : i \in 1..Len(v.l) }
      [] OTHER          -> {}

StringsOfMap(h, addr) ==
    IF addr = NilMap THEN {} ELSE { h[addr][k] : k \in DOMAIN h[addr] }

\* The strings ApplyToStep substitutes in, field by field in its order:
\* 1 the request path, 2 the headers, 3 the query, 4 the path parameters,
\* 5 the body.
FieldStrings(h, st, f) ==
    CASE f = 1 -> LET parts == SplitN2(st.Request, " ")
                  IN  IF Len(parts) = 2 THEN {parts[2]} ELSE {}
      [] f = 2 -> StringsOfMap(h, st.Headers)
      [] f = 3 -> StringsOfMap(h, st.Query)
      [] f = 4 -> StringsOfMap(h, st.PathParams)
      [] f = 5 -> StringsOf(Deref(h, st.Body))

\* The names a field's placeholders have that the context lacks.
UnresolvedNames(h, st, f) ==
    UNION { { NameOf(str, sp) : sp \in Unresolved(str, h[VarsAddr]) } :
            str \in FieldStrings(h, st, f) }

UnresolvedFields(h, st) == { f \in 1..5 : UnresolvedNames(h, st, f) # {} }

\* The field an error of ApplyToStep names, 0 when it names none.
FieldNamed(err) ==
    CASE Head(err).msg = "request path substitution failed" -> 1
      [] Head(err).msg = "header substitution failed"       -> 2
      [] Head(err).msg = "query param substitution failed"  -> 3
      [] Head(err).msg = "path_params substitution failed"  -> 4
      [] Head(err).msg = "body substitution failed"         -> 5
      [] OTHER -> 0

C4_Holds(F) ==
    F # {} =>
        /\ ret.err # NilErr
        /\ FieldNamed(ret.err) = Min(F)
        /\ Cause(ret.err).msg = "undefined variable"
        /\ Cause(ret.err).arg \in UnresolvedNames(heap, step, Min(F))
        /\ ret.val = ZeroStep

\* C4: ApplyToStep resolves the request path, the headers, the query, the
\* path parameters and the body in this order and stops at the first that
\* fails: when fields hold unresolved placeholders, the error returned is
\* that of the earliest such field, names it, and wraps the undefined
\* variable error of one of its placeholders.
C4_FirstFailingFieldReported ==
    op = "ApplyToStep" => C4_Holds(UnresolvedFields(heap, step))

\* The path resolves a placeholder; the headers, the query and the body all
\* hold unresolved ones, and the error is the headers'.
C4_Witness ==
    /\ op = "ApplyToStep"
    /\ UnresolvedFields(heap, step) = {2, 3, 5}
    /\ \E str \in FieldStrings(heap, step, 1) : Placeholders(str) # {}
    /\ FieldNamed(ret.err) = 2

----------------------------------------------------------------------------
(* The structural invariants of a scenario, stated on the scenario alone   *)

HasPrefix(str, prefix) ==
    Len(str) >= Len(prefix) /\ SubSeq(str, 1, Len(prefix)) = prefix

\* "METHOD /path": a known method, one space, a path that starts with "/".
WellFormedRequest(request) ==
    \E m \in { <<"G", "E", "T">>, <<"P", "O", "S", "T">>, <<"P", "U", "T">>, <<"P", "A", "T", "C", "H">>, <<"D", "E", "L", "E", "T", "E">>, <<"H", "E", "A", "D">> } :
        HasPrefix(request, m \o <<" ", "/">>)

\* An exact code 100..599 of three digits, or a wildcard 1xx..5xx.
WellFormedStatusCode(code) ==
    /\ Len(code) = 3
    /\ code[1] \in {"1", "2", "3", "4", "5"}
    /\ \/ IsDigit(code[2]) /\ IsDigit(code[3])
       \/ code[2] = "x" /\ code[3] = "x"

\* source is `prefix.field` with a source prefix, target with a target one.
WellFormedMapping(source, target) ==
    LET targets == { <<"h", "e", "a", "d", "e", "r", "s">>, <<"q", "u", "e", "r", "y">>, <<"p", "a", "t", "h", "_", "p", "a", "r", "a", "m", "s">>, <<"b", "o", "d", "y">>, <<"c", "o", "o", "k", "i", "e", "s">>,
                     <<"v", "a", "r", "i", "a", "b", "l", "e", "s">> }
    IN  /\ \E pre \in targets \cup { <<"r", "e", "s", "p", "o", "n", "s", "e">> } :
               HasPrefix(source, pre \o <<".">>)
        /\ \E pre \in targets : HasPrefix(target, pre \o <<".">>)

\* Next step ns breaks an invariant that involves no other step.
NextStepViolates(ns) ==
    \/ ~WellFormedRequest(ns.Request)
    \/ \E k \in 1..Len(ns.StatusCodes) : ~WellFormedStatusCode(ns.StatusCodes[k])
    \/ \E source \in DOMAIN ns.Map : ~WellFormedMapping(source, ns.Map[source])

\* Step st breaks, by itself, an invariant that involves no other step.
ViolatesIndependently(st) ==
    \/ ~WellFormedRequest(st.Request)
    \/ /\ HasPrefix(st.Request, <<"G", "E", "T", " ">>) \/ HasPrefix(st.Request, <<"H", "E", "A", "D", " ">>)
       /\ st.Body # GoNil
    \/ st.Delay.sec < 0
    \/ st.Delay.sec > 600 \/ (st.Delay.sec = 600 /\ st.Delay.nsec > 0)
    \/ \E j \in 1..Len(st.NextSteps) : NextStepViolates(st.NextSteps[j])

Targets(sc, i) ==
    { sc.Steps[i].NextSteps[j].Request : j \in 1..Len(sc.Steps[i].NextSteps) }

Requests(sc) == { sc.Steps[i].Request : i \in 1..Len(sc.Steps) }

\* Step i of sc breaks an invariant: by itself, by repeating the request of
\* an earlier step, or by a next step whose target is no step of sc.
Violates(sc, i) ==
    \/ ViolatesIndependently(sc.Steps[i])
    \/ \E k \in 1..(i - 1) : sc.Steps[k].Request = sc.Steps[i].Request
    \/ ~ (Targets(sc, i) \subseteq Requests(sc))

HeaderValid(sc) ==
    /\ sc.Name # <<>> /\ sc.BaseURL # <<>>
    /\ sc.VirtualUsers > 0
    /\ sc.Duration > 0 /\ sc.Duration <= 31556952
    /\ Len(sc.Steps) > 0

IndependentlyInvalid(sc) ==
    { i \in 1..Len(sc.Steps) : ViolatesIndependently(sc.Steps[i]) }

Invalid(sc) == { i \in 1..Len(sc.Steps) : Violates(sc, i) }

Validated == op = "Validate" /\ scenario # <<>>

\* C5: Validate is fail-fast over the steps: on a loaded scenario whose
\* scenario-level fields are valid and in which two or more steps each
\* break an invariant by themselves, Validate returns one error, and it is
\* the error of the invalid step with the smallest index.
C5_FirstInvalidStepReported ==
    (Validated /\ HeaderValid(scenario[1])
        /\ Cardinality(IndependentlyInvalid(scenario[1])) >= 2)
    => /\ ret.err # NilErr
       /\ Head(ret.err).arg.step = Min(Invalid(scenario[1])) - 1

\* A valid first step, then two steps that are each invalid by themselves:
\* the error is that of the second step.
C5_Witness ==
    /\ Validated /\ HeaderValid(scenario[1])
    /\ IndependentlyInvalid(scenario[1]) = {2, 3}
    /\ Invalid(scenario[1]) = {2, 3}
    /\ ret.err # NilErr
    /\ Head(ret.err).arg.step = 1

\* C6: when Validate returns success, the target of every next step is the
\* request of a step of the same scenario, by equality of the strings; a
\* next step whose target is no step's request is always rejected.
C6_SuccessImpliesTargetsExist ==
    Validated =>
        /\ ret.err = NilErr =>
              \A i \in 1..Len(scenario[1].Steps) :
                  \A t \in Targets(scenario[1], i) :
                      \E k \in 1..Len(scenario[1].Steps) :
                          scenario[1].Steps[k].Request = t
        /\ (\E i \in 1..Len(scenario[1].Steps) :
               ~ (Targets(scenario[1], i) \subseteq Requests(scenario[1])))
           => ret.err # NilErr

\* Validate succeeded on a scenario whose next steps target a later step,
\* the step itself and an earlier step.
C6_Witness ==
    /\ Validated /\ ret.err = NilErr
    /\ \E i, k \in 1..Len(scenario[1].Steps) :
          i < k /\ scenario[1].Steps[k].Request \in Targets(scenario[1], i)
    /\ \E i \in 1..Len(scenario[1].Steps) :
          scenario[1].Steps[i].Request \in Targets(scenario[1], i)
    /\ \E i, k \in 1..Len(scenario[1].Steps) :
          k < i /\ scenario[1].Steps[k].Request \in Targets(scenario[1], i)

\* C7: when Validate returns success, no two steps of the scenario have the
\* same request; a step that repeats the request of an earlier step is
\* always rejected.
C7_SuccessImpliesUniqueRequests ==
    Validated =>
        /\ ret.err = NilErr =>
              \A i, k \in 1..Len(scenario[1].Steps) :
                  i # k => scenario[1].Steps[i].Request
                              # scenario[1].Steps[k].Request
        /\ (\E i, k \in 1..Len(scenario[1].Steps) :
               i < k /\ scenario[1].Steps[i].Request
                           = scenario[1].Steps[k].Request)
           => ret.err # NilErr

\* Validate rejected, for its repeated request, the third step of a
\* scenario whose only defect is that this step repeats the first.
C7_Witness ==
    /\ Validated
    /\ Len(scenario[1].Steps) = 3
    /\ scenario[1].Steps[3].Request = scenario[1].Steps[1].Request
    /\ IndependentlyInvalid(scenario[1]) = {}
    /\ Invalid(scenario[1]) = {3}
    /\ ret.err # NilErr
    /\ Head(ret.err).msg = "step: duplicate request"
    /\ Head(ret.err).arg.step = 2

----------------------------------------------------------------------------
(* Claims on ApplyToBody with a structured body                            *)

BodyDone == op = "ApplyToBody" /\ step.Body.t = "ref"

InputBody == heap[step.Body.addr]

Context == heap[VarsAddr]

ResultBody == Deref(heap, ret.val)

HasPlaceholder(v) == \E str \in StringsOf(v) : Placeholders(str) # {}

\* v with every placeholder of every string value replaced by its value.
RECURSIVE ExpectedBody(_, _)
ExpectedBody(v, ctx) ==
    CASE v.t = "string" -> GoString(Replaced(v.s, ctx))
      [] v.t = "map"    -> GoMap([k \in DOMAIN v.m |-> ExpectedBody(v.m[k], ctx)])
      [] v.t = "list"   ->
            GoList([n \in 1..Len(v.l) |-> ExpectedBody(v.l[n], ctx)])
      [] OTHER          -> v

\* The structure of v: its keys, its nesting and its strings, a number
\* standing for any number.
RECURSIVE Shape(_)
Shape(v) ==
    CASE v.t = "map"    -> GoMap([k \in DOMAIN v.m |-> Shape(v.m[k])])
      [] v.t = "list"   -> GoList([n \in 1..Len(v.l) |-> Shape(v.l[n])])
      [] v.t = "number" -> [t |-> "number"]
      [] OTHER          -> v

\* The numbers of v where they stand, each by its decimal text; a string
\* standing for any string.
RECURSIVE NumberTexts(_)
NumberTexts(v) ==
    CASE v.t = "map"    -> GoMap([k \in DOMAIN v.m |-> NumberTexts(v.m[k])])
      [] v.t = "list"   -> GoList([n \in 1..Len(v.l) |-> NumberTexts(v.l[n])])
      [] v.t = "number" -> [t |-> "number", text |-> v.text]
      [] v.t = "string" -> [t |-> "string"]
      [] OTHER          -> v

RECURSIVE NumbersOf(_)
NumbersOf(v) ==
    CASE v.t = "map"    -> UNION { NumbersOf(v.m[k]) : k \in DOMAIN v.m }
      [] v.t = "list"   -> UNION { NumbersOf(v.l[n]) : n \in 1..Len(v.l) }
      [] v.t = "number" -> {v}
      [] OTHER          -> {}

\* Every `${` of str is within a placeholder, and the names of its
\* placeholders hold no character that JSON writes as an escape.
PlainText(str) ==
    /\ \A i \in 1..(Len(str) - 1) :
          (str[i] = "$" /\ str[i + 1] = "{")
          => \E sp \in Placeholders(str) : sp[1] <= i /\ i <= sp[2]
    /\ \A name \in PlaceholderNames(str) :
          \A i \in 1..Len(name) :
              name[i] \notin {"\"", "\\", "<", "LF", "CR", "TAB"}

\* C8: the body ApplyToBody returns for a structured body that holds
\* placeholders is the input with each placeholder of each string value
\* replaced by the context's value character for character (so a field that
\* was exactly `${n}` is context[n]), whatever quotes, backslashes or
\* newlines the value holds, and with the same keys, nesting and other
\* fields; and a body is returned whenever the placeholders are all defined
\* and the strings of the body hold no other `${`.
C8_ValuesEmbeddedLiterally ==
    /\ (BodyDone /\ HasPlaceholder(InputBody) /\ ret.err = NilErr)
       => Shape(ResultBody) = Shape(ExpectedBody(InputBody, Context))
    /\ (BodyDone /\ HasPlaceholder(InputBody)
           /\ \A str \in StringsOf(InputBody) :
                  PlainText(str) /\ Unresolved(str, Context) = {})
       => ret.err = NilErr

\* A nested body whose field o.k is exactly `${a}`, with a value made of a
\* backslash, a double quote and a newline: the field is that value.
C8_Witness ==
    /\ BodyDone /\ ret.err = NilErr
    /\ InputBody.t = "map" /\ DOMAIN InputBody.m = {<<"o">>, <<"j">>}
    /\ InputBody.m[<<"o">>].m[<<"k">>] = GoString(<<"$", "{", "a", "}">>)
    /\ <<"a">> \in DOMAIN Context
    /\ Context[<<"a">>] = <<"\\", "\"", "LF">>
    /\ DOMAIN ResultBody.m = {<<"o">>, <<"j">>}
    /\ ResultBody.m[<<"o">>].m[<<"k">>] = GoString(Context[<<"a">>])

\* C9: a structured body with no placeholder anywhere comes back unchanged,
\* every number with its original type and value (no JSON round trip),
\* whatever the context.
C9_NoPlaceholderBodyUnchanged ==
    (BodyDone /\ ~HasPlaceholder(InputBody))
    => /\ ret.err = NilErr
       /\ ResultBody = InputBody

\* C10: in the body returned for a structured body that holds a
\* placeholder, every number is a json.Number and stands with the decimal
\* text it had in the input.
C10_NumbersKeepDecimalText ==
    (BodyDone /\ HasPlaceholder(InputBody) /\ ret.err = NilErr)
    => /\ \A n \in NumbersOf(ResultBody) : n.kind = "json.Number"
       /\ NumberTexts(ResultBody) = NumberTexts(InputBody)

----------------------------------------------------------------------------
(* Claims on the Parser's state                                            *)

\* C12: a ParseData that fails leaves p.scenario as it was, and the call
\* that follows it sees the parser as before: on a parser with nothing
\* loaded GetScenario and Validate fail with "no scenario loaded", and on a
\* parser that holds a scenario GetScenario returns that scenario.
C12_FailedParseLeavesParser ==
    [][ /\ (op' = "ParseData" /\ ret'.err # NilErr) => scenario' = scenario
        /\ (op = "ParseData" /\ ret.err # NilErr /\ op' = "GetScenario")
           => ret' = IF scenario = <<>>
                     THEN [val |-> <<>>,
                           err |-> Errorf("no scenario loaded", NoArg)]
                     ELSE [val |-> scenario, err |-> NilErr]
        /\ (op = "ParseData" /\ ret.err # NilErr /\ op' = "Validate"
               /\ scenario = <<>>)
           => ret'.err = Errorf("no scenario loaded", NoArg)
      ]_allVars

\* A ParseData has failed on a parser that holds a scenario with steps, and
\* the parser holds it still.
C12_Witness ==
    /\ op = "ParseData" /\ ret.err # NilErr
    /\ scenario # <<>> /\ Len(scenario[1].Steps) >= 1

Valid(ptr) ==
    \A rank \in RangeOrders(MappingKeys(ptr)) : Validate(ptr, rank) = NilErr

\* C13: the load runs the Validator: a ParseData that succeeds has stored a
\* scenario that Validate accepts, and the scenario GetScenario returns is
\* one that Validate accepts.
C13_LoadRunsValidator ==
    /\ (op = "ParseData" /\ ret.err = NilErr) => Valid(scenario)
    /\ (op = "GetScenario" /\ ret.err = NilErr) => Valid(ret.val)

\* What the calls return when they run in order on a parser of their own
\* that holds ptr.
RECURSIVE AloneReturns(_, _)
AloneReturns(calls, ptr) ==
    IF calls = <<>> THEN <<>>
    ELSE LET call == Head(calls)
         IN  CASE call.name = "ParseData" ->
                     <<Returned(<<>>, NilErr)>>
                         \o AloneReturns(Tail(calls), call.doc)
               [] call.name = "GetScenario" ->
                     <<GetScenario(ptr)>> \o AloneReturns(Tail(calls), ptr)
               [] call.name = "Validate" ->
                     <<Returned(<<>>,
                                Validate(ptr, CHOOSE rank \in
                                             RangeOrders(MappingKeys(ptr)) : TRUE))>>
                         \o AloneReturns(Tail(calls), ptr)

\* C11: whatever the interleaving of the calls of two goroutines on one
\* shared Parser, each call returns to its goroutine what it returns when
\* the goroutine's calls run alone.
C11_SharedParserCallsAsIfAlone ==
    \A c \in DOMAIN callers :
        \A k \in 1..Len(callers[c].returns) :
            callers[c].returns[k] = AloneReturns(callers[c].calls, <<>>)[k]

----------------------------------------------------------------------------
(* Claims on the validation helpers                                        *)

\* C14: validateStatusCode accepts a string exactly when it is three
\* decimal digits that denote a code in 100..599 or a wildcard `Nxx` with N
\* in 1..5; every other string is rejected.
C14_AcceptsExactlyStatusPatterns ==
    op = "validateStatusCode"
    => (ret.err = NilErr <=> WellFormedStatusCode(args[1]))

\* C15: validateMapping accepts (source, target) exactly when each side is
\* a prefix, a '.', and a field (any text, the split being at the first
\* '.'), the prefix of the source being one of response, headers, query,
\* path_params, body, cookies, variables and the prefix of the target one
\* of these but response; response is accepted as a source prefix and
\* rejected as a target prefix.
C15_AcceptsExactlyKnownPrefixes ==
    op = "validateMapping"
    => /\ ret.err = NilErr <=> WellFormedMapping(args[1], args[2])
       /\ HasPrefix(args[2], <<"r", "e", "s", "p", "o", "n", "s", "e", ".">>) => ret.err # NilErr

\* A mapping from a response field to a response field: the source passes
\* and the target is refused for its prefix.
C15_Witness ==
    /\ op = "validateMapping"
    /\ args = <<<<"r", "e", "s", "p", "o", "n", "s", "e", ".", "x">>, <<"r", "e", "s", "p", "o", "n", "s", "e", ".", "x">>>>
    /\ ret.err # NilErr
    /\ Head(ret.err).msg = "invalid target"

\* C16: parseRequest succeeds exactly on a request made of one of GET,
\* POST, PUT, PATCH, DELETE, HEAD in this spelling, one space, and a path
\* that starts with '/'; it then returns that method and, as the path, all
\* that follows the first space.  A request without a space, with another
\* method or with another path fails.
C16_SplitsAtFirstSpace ==
    op = "parseRequest"
    => /\ ret.err = NilErr <=> WellFormedRequest(args[1])
       /\ ret.err = NilErr
          => /\ ret.val.method \o <<" ">> \o ret.val.path = args[1]
             /\ \A i \in 1..Len(ret.val.method) : ret.val.method[i] # " "
             /\ ret.val.path[1] = "/"
       /\ (\A i \in 1..Len(args[1]) : args[1][i] # " ") => ret.err # NilErr

\* A request with two spaces: the method is what precedes the first and the
\* path all that follows it.
C16_Witness ==
    /\ op = "parseRequest"
    /\ args = <<<<"G", "E", "T", " ", "/", "a", " ", "/", "a">>>>
    /\ ret.err = NilErr
    /\ ret.val = [method |-> <<"G", "E", "T">>, path |-> <<"/", "a", " ", "/", "a">>]

----------------------------------------------------------------------------
(* Claims on the field operations                                          *)

\* The map at addr in h is the map at src in the heap before, value by
\* value substituted under the context; a nil src counts as the empty map.
SubstitutedCopy(h, addr, src) ==
    /\ addr # NilMap
    /\ addr \notin 1..Len(heap)
    /\ DOMAIN h[addr] = KeysOf(heap, src)
    /\ \A k \in KeysOf(heap, src) :
          h[addr][k] = Replaced(heap[src][k], heap[VarsAddr])

AllResolved(src) ==
    \A k \in KeysOf(heap, src) : Unresolved(heap[src][k], heap[VarsAddr]) = {}

\* What C17 says of a call on the map at src.
C17_Holds(src) ==
    /\ InputUntouched
    /\ AllResolved(src) <=> ret'.err = NilErr
    /\ ret'.err = NilErr => SubstitutedCopy(heap', ret'.val, src)

\* C17: ApplyToHeaders and ApplyToQuery (which is also the operation on the
\* path parameters) return on success a new map with the keys of the input
\* map, each value being the input's value substituted under the context;
\* they never change the input map; a nil input map gives an empty map and
\* no error.  So does ApplyToStep for the path parameters of a Step that has
\* them.
C17_NewMapSameKeysSubstituted ==
    [][ /\ op' = "ApplyToHeaders" => C17_Holds(step.Headers)
        /\ op' = "ApplyToQuery" => C17_Holds(step.Query)
        /\ (op' = "ApplyToStep" /\ ret'.err = NilErr
               /\ step.PathParams # NilMap)
           => SubstitutedCopy(heap', ret'.val.PathParams, step.PathParams)
      ]_allVars

\* ApplyToHeaders has succeeded on a map of two entries that both hold a
\* placeholder: the result is another map with the same two keys.
C17_Witness ==
    /\ op = "ApplyToHeaders" /\ ret.err = NilErr
    /\ step.Headers # NilMap
    /\ Cardinality(DOMAIN heap[step.Headers]) = 2
    /\ \A k \in DOMAIN heap[step.Headers] :
          Placeholders(heap[step.Headers][k]) # {}
    /\ ret.val # step.Headers
    /\ DOMAIN heap[ret.val] = DOMAIN heap[step.Headers]
    /\ heap[ret.val] # heap[step.Headers]

\* C18: each substitution operation fails as a whole: when a string it
\* processes holds an unresolved placeholder it returns an error together
\* with the zero value only, whatever else it had resolved: the empty string
\* for ApplyToURL, no map for ApplyToHeaders and ApplyToQuery, nil for
\* ApplyToBody, the zero Step for ApplyToStep.
C18_FailsAtomically ==
    /\ op = "ApplyToURL"
       => /\ Unresolved(step.Request, heap[VarsAddr]) # {} => ret.err # NilErr
          /\ ret.err # NilErr => ret.val = <<>>
    /\ op = "ApplyToHeaders"
       => /\ ~AllResolved(step.Headers) => ret.err # NilErr
          /\ ret.err # NilErr => ret.val = NilMap
    /\ op = "ApplyToQuery"
       => /\ ~AllResolved(step.Query) => ret.err # NilErr
          /\ ret.err # NilErr => ret.val = NilMap
    /\ op = "ApplyToBody"
       => /\ UnresolvedNames(heap, step, 5) # {} => ret.err # NilErr
          /\ ret.err # NilErr => ret.val = GoNil
    /\ op = "ApplyToStep"
       => /\ UnresolvedFields(heap, step) # {} => ret.err # NilErr
          /\ ret.err # NilErr => ret.val = ZeroStep

\* ApplyToStep has resolved a placeholder of the path and the headers and
\* failed on the body: it returns the zero Step.
C18_Witness ==
    /\ op = "ApplyToStep"
    /\ UnresolvedFields(heap, step) = {5}
    /\ \E str \in FieldStrings(heap, step, 1) : Placeholders(str) # {}
    /\ \E str \in FieldStrings(heap, step, 2) : Placeholders(str) # {}
    /\ ret.err # NilErr
    /\ ret.val = ZeroStep

----------------------------------------------------------------------------
(* Claims on the empty placeholder name                                    *)

\* The `${name}` spans of s when the name may be empty.
SpansWithEmptyName(s) ==
    UNION { { <<i, j>> : j \in { k \in (i + 2)..Len(s) :
                                    /\ s[k] = "}"
                                    /\ \A m \in (i + 2)..(k - 1) : s[m] # "}" } } :
            i \in { o \in 1..(Len(s) - 2) : s[o] = "$" /\ s[o + 1] = "{" } }

PlaceholdersWithEmptyName(s) == NotInsideEarlier(SpansWithEmptyName(s))

\* The `${}` among them.
EmptyNamePlaceholders(s) ==
    { sp \in PlaceholdersWithEmptyName(s) : sp[2] = sp[1] + 2 }

\* C19: `${}` is a placeholder whose key is the empty string: the call
\* replaces it by the context's value for "" when the context has one and
\* fails with an undefined-variable error otherwise; `${}` is never left in
\* the result as literal text.
C19_EmptyNameIsPlaceholder ==
    (StringCallDone /\ EmptyNamePlaceholders(template) # {}) =>
        LET P == PlaceholdersWithEmptyName(template)
        IN  IF \A sp \in P : NameOf(template, sp) \in DOMAIN vars
            THEN /\ ret.err = NilErr
                 /\ ret.val = PiecesFrom(template, vars, P, 1)
            ELSE /\ ret.err # NilErr
                 /\ Cause(ret.err).msg = "undefined variable"

----------------------------------------------------------------------------
(* Claims on string bodies                                                 *)

\* C20: for a body that is a plain string, ApplyToBody returns the string
\* substitute gives for it under the context, the values put in as they
\* are, without JSON escaping, and fails when substitute fails; for a nil
\* body it returns nil and no error.
C20_StringBodySubstitutedVerbatim ==
    op = "ApplyToBody" =>
        /\ step.Body.t = "string" =>
              IF Unresolved(step.Body.s, Context) = {}
              THEN /\ ret.err = NilErr
                   /\ ret.val = GoString(Replaced(step.Body.s, Context))
              ELSE /\ ret.err # NilErr
                   /\ ret.val = GoNil
        /\ step.Body.t = "nil" => ret.err = NilErr /\ ret.val = GoNil

\* A string body that looks like JSON has had a value holding a double
\* quote put into it, and the quote is in the result unescaped.
C20_Witness ==
    /\ op = "ApplyToBody"
    /\ step.Body.t = "string"
    /\ step.Body.s[1] = "{"
    /\ <<"a">> \in DOMAIN Context
    /\ \E i \in 1..Len(Context[<<"a">>]) : Context[<<"a">>][i] = "\""
    /\ ret.err = NilErr
    /\ ret.val.t = "string"
    /\ Len(ret.val.s) = Len(step.Body.s) - 4 + Len(Context[<<"a">>])

----------------------------------------------------------------------------
(* Claims on the request and the frame of ApplyToStep                      *)

Spaces(str) == { i \in 1..Len(str) : str[i] = " " }

\* The request up to its first space, and after it.
MethodToken(request) == SubSeq(request, 1, Min(Spaces(request)) - 1)

PathOf(request) == SubSeq(request, Min(Spaces(request)) + 1, Len(request))

\* C21: ApplyToStep splits the request at its first space, copies the method
\* token as it is, placeholders included, and substitutes in the path only:
\* the Request of the result is the method token, one space and the
\* substituted path, and a placeholder of the method token never makes the
\* call fail.
C21_MethodUntouchedPathSubstituted ==
    (op = "ApplyToStep" /\ Spaces(step.Request) # {}) =>
        LET path == PathOf(step.Request)
        IN  /\ Unresolved(path, Context) # {} =>
                  ret.err # NilErr /\ FieldNamed(ret.err) = 1
            /\ (Unresolved(path, Context) = {}
                   /\ \A f \in 2..5 : UnresolvedNames(heap, step, f) = {})
               => ret.err = NilErr
            /\ ret.err = NilErr =>
                  ret.val.Request =
                      MethodToken(step.Request) \o <<" ">>
                          \o Replaced(path, Context)

\* The method token holds a placeholder the context lacks, the path one it
\* has and a second space: the call succeeds and changes the path only.
C21_Witness ==
    /\ op = "ApplyToStep"
    /\ Cardinality(Spaces(step.Request)) = 2
    /\ Unresolved(MethodToken(step.Request), Context) # {}
    /\ Placeholders(PathOf(step.Request)) # {}
    /\ ret.err = NilErr
    /\ ret.val.Request # step.Request
    /\ MethodToken(ret.val.Request) = MethodToken(step.Request)

\* C29: ApplyToStep leaves a request without a space as it is: it
\* substitutes nothing in it, and raises no error for it, whatever
\* placeholders it holds.
C29_UnsplitRequestVerbatim ==
    (op = "ApplyToStep" /\ Spaces(step.Request) = {}) =>
        /\ ret.err = NilErr => ret.val.Request = step.Request
        /\ ret.err # NilErr => FieldNamed(ret.err) # 1
        /\ (\A f \in 2..5 : UnresolvedNames(heap, step, f) = {})
           => ret.err = NilErr

\* A request without a space holds a placeholder the context lacks, and the
\* call has succeeded.
C29_Witness ==
    /\ op = "ApplyToStep"
    /\ Spaces(step.Request) = {}
    /\ Unresolved(step.Request, Context) # {}
    /\ ret.err = NilErr
    /\ ret.val.Request = step.Request

\* C30: a successful ApplyToStep changes Request, Headers, Query, PathParams
\* and Body only: Delay, SaveToContext and NextSteps of the result are the
\* input's, and a Headers, Query, PathParams or Body that is nil on the
\* input is nil on the result.
C30_OnlySubstitutedFieldsChange ==
    [][(op' = "ApplyToStep" /\ ret'.err = NilErr) =>
         /\ ret'.val.Delay = step.Delay
         /\ ret'.val.SaveToContext = step.SaveToContext
         /\ ret'.val.NextSteps = step.NextSteps
         /\ \A a \in {step.SaveToContext, step.NextSteps} \ {NilMap} :
               heap'[a] = heap[a]
         /\ step.Headers = NilMap => ret'.val.Headers = NilMap
         /\ step.Query = NilMap => ret'.val.Query = NilMap
         /\ step.PathParams = NilMap => ret'.val.PathParams = NilMap
         /\ step.Body = GoNil => ret'.val.Body = GoNil
      ]_allVars

\* A successful call on a Step with a delay, a SaveToContext and NextSteps
\* but no headers and no body, that has substituted in the query.
C30_Witness ==
    /\ op = "ApplyToStep"
    /\ ret.err = NilErr
    /\ step.Delay # ZeroDuration
    /\ step.SaveToContext # NilMap /\ step.NextSteps # NilMap
    /\ step.Headers = NilMap /\ step.Body = GoNil
    /\ step.Query # NilMap
    /\ heap[ret.val.Query] # heap[step.Query]
    /\ ret.val.Headers = NilMap /\ ret.val.Body = GoNil
    /\ ret.val.Delay = step.Delay

----------------------------------------------------------------------------
(* Claims on the bodies, the delays and the scenario-level numbers         *)

StepsOf(ptr) == { ptr[1].Steps[i] : i \in 1..Len(ptr[1].Steps) }

\* The method of a step: its request up to the first space.
MethodOf(st) ==
    IF Spaces(st.Request) = {} THEN st.Request ELSE MethodToken(st.Request)

\* The scenario breaks no invariant at all.
FullyValid(sc) == HeaderValid(sc) /\ Invalid(sc) = {}

InDelayRange(d) ==
    /\ d.sec >= 0
    /\ d.sec < 600 \/ (d.sec = 600 /\ d.nsec = 0)

\* C23: when Validate returns success the delay of every step is within
\* 0 and 10 minutes; a negative delay and a delay above 10 minutes are
\* rejected; no delay and a delay of 10 minutes exactly are accepted.
C23_DelayWithinTenMinutes ==
    Validated =>
        /\ ret.err = NilErr =>
              \A st \in StepsOf(scenario) : InDelayRange(st.Delay)
        /\ (\E st \in StepsOf(scenario) : ~InDelayRange(st.Delay))
           => ret.err # NilErr
        /\ FullyValid(scenario[1]) => ret.err = NilErr

\* Validate has accepted a scenario with a step of no delay and a step of
\* 10 minutes exactly.
C23_Witness ==
    /\ Validated /\ ret.err = NilErr
    /\ \E st \in StepsOf(scenario) : st.Delay = [sec |-> 0, nsec |-> 0]
    /\ \E st \in StepsOf(scenario) : st.Delay = [sec |-> 600, nsec |-> 0]

ScenarioLevelErrors ==
    { "scenario.name is required", "scenario.base_url is required",
      "scenario.virtual_users must be greater than 0",
      "scenario.duration must be greater than 0",
      "scenario.duration must be less than 1 year" }

\* C24: when Validate returns success the scenario has virtual_users > 0 and
\* 0 < duration <= 31556952; virtual_users = 0, duration = 0 and
\* duration = 31556953 are rejected with a scenario-level error, whatever
\* the steps are; duration = 31556952 is accepted.
C24_UsersAndDurationInRange ==
    Validated =>
        LET sc == scenario[1]
            inRange == /\ sc.VirtualUsers > 0
                       /\ sc.Duration > 0
                       /\ sc.Duration <= 31556952
        IN  /\ ret.err = NilErr => inRange
            /\ ~inRange =>
                  /\ ret.err # NilErr
                  /\ Len(ret.err) = 1
                  /\ Head(ret.err).msg \in ScenarioLevelErrors
            /\ FullyValid(sc) => ret.err = NilErr

\* Validate has accepted a scenario whose duration is 31556952 seconds.
C24_Witness ==
    /\ Validated /\ ret.err = NilErr
    /\ scenario[1].Duration = 31556952
    /\ scenario[1].VirtualUsers > 1

----------------------------------------------------------------------------
(* Claims on the decoding of a delay                                       *)

\* The node is a plain integer, a count of nanoseconds.
IsNanosecondCount(node) ==
    /\ node.kind = "scalar" /\ ~node.quoted
    /\ node.text # <<>>
    /\ \A i \in 1..Len(node.text) : IsDigit(node.text[i])

\* The node is a literal of one group: digits and a unit.
IsOneGroupLiteral(node) ==
    /\ node.kind = "scalar"
    /\ \E n \in 1..(Len(node.text) - 1) :
          /\ \A i \in 1..n : IsDigit(node.text[i])
          /\ SubSeq(node.text, n + 1, Len(node.text)) \in DurationUnits

\* The length of time a literal of one group denotes.
LiteralLength(text) ==
    LET n == CHOOSE k \in 1..(Len(text) - 1) :
                 /\ \A i \in 1..k : IsDigit(text[i])
                 /\ ~IsDigit(text[k + 1])
    IN  UnitDur(DecimalValue(SubSeq(text, 1, n), 0),
                SubSeq(text, n + 1, Len(text)))

\* C25: the decoding of a delay accepts a duration literal and an integer
\* count of nanoseconds alike and gives both the one representation: the
\* count decodes to the Duration of that many nanoseconds, the literal to
\* the Duration of its length, and neither is refused.
C25_BothDelayFormsDecode ==
    op = "UnmarshalYAML" =>
        /\ IsNanosecondCount(args[1]) =>
              /\ ret.err = NilErr
              /\ ret.val = Nanoseconds(DecimalValue(args[1].text, 0))
        /\ IsOneGroupLiteral(args[1]) =>
              /\ ret.err = NilErr
              /\ ret.val = LiteralLength(args[1].text)

----------------------------------------------------------------------------
(* Claims on the single pass of substitute                                 *)

\* The placeholders of the template whose value holds a placeholder itself.
InsertingPlaceholder(s, vs) ==
    { sp \in Placeholders(s) :
         /\ NameOf(s, sp) \in DOMAIN vs
         /\ Placeholders(vs[NameOf(s, sp)]) # {} }

\* C28: substitute makes one pass: the text put in for a placeholder is not
\* scanned again.  A value that holds `${x}` comes out as it is: it is not
\* expanded when x is in the context, and not reported as undefined when x
\* is not.
C28_InsertedTextNotRescanned ==
    (StringCallDone /\ InsertingPlaceholder(template, vars) # {}) =>
        /\ Unresolved(template, vars) = {} =>
              /\ ret.err = NilErr
              /\ ret.val = Replaced(template, vars)
        /\ ret.err # NilErr =>
              Cause(ret.err).arg \in
                  { NameOf(template, sp) : sp \in Unresolved(template, vars) }

\* The template is one placeholder whose value is `${b}`, and b is not in
\* the context: the call has returned `${b}`.
C28_Witness ==
    /\ op = "substitute"
    /\ Cardinality(Placeholders(template)) = 1
    /\ InsertingPlaceholder(template, vars) = Placeholders(template)
    /\ <<"b">> \notin DOMAIN vars
    /\ ret.err = NilErr
    /\ Placeholders(ret.val) # {}
    /\ PlaceholderNames(ret.val) = { <<"b">> }

----------------------------------------------------------------------------
(* Claims on the Extractor                                                 *)

\* Extract finds a value for the input: there is data, there is a path, and
\* the path leads to a value of the document, JSON null included.
Found(jsonData, path) ==
    /\ jsonData # NoData /\ path # <<>>
    /\ GetValue(jsonData[1], path).exists

ValueAt(jsonData, path) == GetValue(jsonData[1], path).value

\* C27: the three operations agree on every input.  Extract succeeds
\* exactly when the input has data, a path, and a value at the path, and
\* returns that value; Exists is true exactly then, so false for empty data
\* and for an empty path and true for a path that holds JSON null;
\* ExtractWithDefault returns the value, nil for JSON null, exactly then
\* and the default otherwise.
C27_ExtractorOperationsAgree ==
    LET found == Found(args[1], args[2])
    IN  /\ op = "Extract" =>
              /\ ret.err = NilErr <=> found
              /\ found => ret.val = ValueAt(args[1], args[2])
        /\ op = "Exists" =>
              /\ ret.val = found
              /\ (args[1] = NoData \/ args[2] = <<>>) => ret.val = FALSE
        /\ op = "ExtractWithDefault" =>
              ret.val = IF found THEN ValueAt(args[1], args[2]) ELSE args[3]

\* ExtractWithDefault has returned nil, not the default, for a path of two
\* components that holds JSON null.
C27_Witness ==
    /\ op = "ExtractWithDefault"
    /\ Len(args[2]) = 2
    /\ Found(args[1], args[2])
    /\ ValueAt(args[1], args[2]) = GoNil
    /\ args[3] # GoNil
    /\ ret.val = GoNil

----------------------------------------------------------------------------
(* Claims on the OpenAPI Parser                                            *)

Getters ==
    { "GetEndpoints", "GetEndpointsByTag", "GetTags", "GetInfo",
      "GetServerURLs" }

Parses == { "ParseData", "ParseFile" }

\* C26: a parser is unloaded until a ParseData or ParseFile succeeds and
\* loaded ever after.  Each of GetEndpoints, GetEndpointsByTag, GetTags,
\* GetInfo and GetServerURLs returns an error on an unloaded parser and
\* succeeds on a loaded one; a parse that fails changes nothing: the
\* unloaded parser stays unloaded, the loaded one keeps its document.
C26_GettersFollowLoadedDocument ==
    [][ /\ op' \in Getters => (ret'.err # NilErr <=> doc = <<>>)
        /\ op' \in Getters => doc' = doc
        /\ (op' \in Parses /\ ret'.err = NilErr) => doc' # <<>>
        /\ (op' \in Parses /\ ret'.err # NilErr) => doc' = doc
        /\ doc # <<>> => doc' # <<>>
        /\ (op' = "GetInfo" /\ doc # <<>>) => ret'.val = doc[1].Info
      ]_allVars

\* A loaded parser has been given another document, one that does not
\* validate, and holds the document it held before.
C26_Witness ==
    /\ op = "ParseData"
    /\ args[1].loads /\ ~args[1].valid
    /\ ret.err # NilErr
    /\ doc # <<>>
    /\ doc[1] # args[1].doc

====
